---------------------------- MODULE Spec2Model ----------------------------
(***************************************************************************)
(* Museum of Words: the vector-analysis pipeline.                          *)
(*                                                                         *)
(* Numbers.  The program computes in IEEE doubles over Float32 data; the   *)
(* model computes in exact rationals.  A vector component c stands for the *)
(* real c / 5, so a vector is unit-normalized exactly when the sum of the  *)
(* squares of its components is UnitSq = 25, and dot(a, b) is a numerator  *)
(* over UnitSq.  Indices are 1-based in the model: point i  *)
(* of the model is index i - 1 of the program; wherever the program stores *)
(* or computes with an index (neighbor j, cluster label, placeholder       *)
(* coordinate) the model stores the program's 0-based value.               *)
(***************************************************************************)
EXTENDS Integers, Sequences, FiniteSets, TLC

VARIABLES
    \* --- similarity / neighbors (utils/embeddings.ts)
    vectors,      \* the vector list handed to buildSimMatrix / nearestNeighbors
    k,            \* requested neighbor count
    M,            \* result of buildSimMatrix
    result,       \* result of nearestNeighbors
    \* --- kmeans (utils/clustering.ts)
    points,       \* 2D input points
    kc,           \* requested cluster count
    iters,        \* iteration budget
    it,           \* loop counter of the outer for
    centers,      \* centroids, exact rationals [x, y, d] = (x/d, y/d)
    labels,       \* one label per point (0-based centroid index)
    kpc,          \* position in kmeans: "idle" | "start" | "loop" | "done"
    \* --- normalize2D (utils/clustering.ts)
    coords,       \* raw 2D coordinates
    width, height, pad,
    out,          \* result of normalize2D
    \* --- projection (App coordsRaw memo, Visualization3D scene effect)
    method,       \* "pca" | "umap"
    coordsRaw,    \* result of the coordsRaw memo
    backendCalls, \* the external reduction backends invoked so far
    pcaAnalysis,  \* Visualization3D state: [set, coords], set FALSE for null
    error,        \* Visualization3D state: error message shown, or Null
    isLoading,    \* Visualization3D state
    \* --- dot / cosine called on two vectors (utils/embeddings.ts)
    dotA, dotB,   \* the two arguments
    dotResult,    \* what the call returned
    \* --- the App component: word list, embedding cache, embedding effect
    version,      \* which App of part_001: "minilm" | "toy" | "tokenizer"
    engine,       \* App state (toy version): "minilm" | "toy"
    dim,          \* App state (toy version): dimension of the toy engine
    words,        \* App state: the word list
    newWord,      \* App state: the text of the input box
    selected,     \* App state: <<>> for null, <<i>> for index i (0-based)
    realStore,    \* App state: the embedding cache, word -> entry
    ready,        \* extractor and tokenizer (or fallbackTokenizer) are set
    failing,      \* the words whose embedding / tokenization throws
    runs,         \* async loops of the embedding effect parked at an await
    effectPending,\* a dependency of the embedding effect changed since it ran
    editsLeft,    \* user actions still allowed; -1 where they are not limited
    \* --- embedWordToy (utils/clustering.ts)
    toyWord, toyDim,  \* the arguments
    toyOut,           \* embedWordToy(toyWord, toyDim)
    toyOutLower,      \* embedWordToy(toyWord.toLowerCase(), toyDim)
    \* --- the debounced effects (App preview, Tokenizer tab)
    component,    \* "preview" (App) | "tab" (Tokenizer)
    text,         \* the text typed: newWord of the App, text of the tab
    tokenizer,    \* whether the tokenizer dependency is set
    timers,       \* the pending setTimeout callbacks: [text, left]
    since,        \* ms since the text last changed (capped)
    runCount,     \* runs of the debounced work since the text last changed
    depChanges,   \* changes of the other dependencies since then
    lastRun,      \* the last run: [text, quiet], quiet the ms the text
                  \* had been unchanged when it ran
    \* --- the App component: model loading and the input preview
    extractor,        \* App state: "null" | "pipe"
    modelTokenizer,   \* App state tokenizer: "null" | "tok"
    fallbackTokenizer,\* App state (tokenizer version): "null" | "gpt"
    modelError,       \* App state: "null" | "failed"
    loadingModel,     \* App state
    load,             \* the await the loading function is parked at, or "none"
    loaderDue,        \* the model-loading effect is to run after this render
    previewDue,       \* the preview effect is to run after this render
    previewTimer,     \* the pending setTimeout of the preview effect
    inflight,         \* calls of getPreviewEmbedding parked at await extractor
    previewText,      \* App state
    previewEmbedding, \* App state: <<>> for null, <<t>> the vector of text t
    attempts,         \* load attempts started
    retries,          \* calls of retryModelLoading
    calls,            \* calls of the extractor made by the preview
    thrown,           \* the calls of the extractor that were rejected
    \* --- Visualization3D inside the App (tokenizer version)
    dark,             \* App state
    query,            \* App state: the quick search text
    searchProps,      \* <<query, words>> of the last quick search effect run
    clientWidth,      \* containerRef.current.clientWidth
    clientHeight,     \* containerRef.current.clientHeight
    sceneProps,       \* <<vectors, words, dark>> of the last scene effect run
    scenePc,          \* how that run ended: "none" | "empty" | "waiting" |
                      \* "failed" | "ready"
    scene,            \* the scene whose listeners are attached:
                      \* <<>> or <<[points, mobile]>>
    retryTimers,      \* pending setTimeout callbacks of the zero-size branch
    now,              \* Date.now()
    lastTouchTime,    \* the variable of addTouchInteraction
    touch,            \* the touch in progress: <<>> or <<[at, over, changed]>>
    selectCalls,      \* calls of onSelect by the scene's listeners
    painted,          \* the word list whose placards are still in the
                      \* gallery: those of words, and the leaving ones
    \* --- bookkeeping
    ran           \* the operations that have returned, by name

vecVars  == <<vectors, k, M, result>>
kmVars   == <<points, kc, iters, it, centers, labels, kpc>>
normVars == <<coords, width, height, pad, out>>
projVars == <<method, coordsRaw, backendCalls, pcaAnalysis, error, isLoading>>
dotVars  == <<dotA, dotB, dotResult>>
appVars  == <<version, engine, dim, words, newWord, selected, realStore,
              ready, failing, runs, effectPending, editsLeft>>
toyVars  == <<toyWord, toyDim, toyOut, toyOutLower>>
\* The variables of the components added after the four stages.
debVars  == <<component, text, tokenizer, timers, since, runCount,
              depChanges, lastRun>>
mdlVars  == <<extractor, modelTokenizer, fallbackTokenizer, modelError,
              loadingModel, load, loaderDue, previewDue, previewTimer,
              inflight, previewText, previewEmbedding, attempts, retries,
              calls, thrown>>
sceneVars == <<dark, query, searchProps, clientWidth, clientHeight,
               sceneProps, scenePc, scene, retryTimers, now, lastTouchTime,
               touch, selectCalls, painted>>
tailVars == <<mdlVars, sceneVars>>
lateVars == <<appVars, toyVars, debVars, tailVars>>
extVars  == <<dotVars, lateVars>>
vars     == <<vecVars, kmVars, normVars, projVars, extVars, ran>>

Null   == "null"
NaN    == "NaN"

Min(a, b) == IF a < b THEN a ELSE b
Max(a, b) == IF a > b THEN a ELSE b

\* All sequences over S of length lo..hi.
SeqsBetween(S, lo, hi) == UNION {[1..n -> S] : n \in lo..hi}

---------------------------------------------------------------------------
(* Bounds and input domains *)

MaxN == 4          \* most vectors in a vector list
MaxK == 3          \* largest neighbor count requested

\* The square of the length of a unit vector on the 3-4-5 grid.
UnitSq == 5 * 5

\* Input vectors: four unit vectors (3-4-5 grid), the zero vector and a
\* vector of length 2.
UnitVecs == {<<5, 0>>, <<0, 5>>, <<3, 4>>, <<-3, -4>>}
Vecs     == UnitVecs \cup {<<0, 0>>, <<6, 8>>}

MaxLen   == 2      \* longest argument of a single dot / cosine call
\* Components of the arguments of a single dot / cosine call.
DotVals  == {-1, 0, 2}

MaxM     == 4      \* most 2D points handed to kmeans / normalize2D
MaxKc    == 3      \* largest cluster count requested
MaxIters == 2      \* largest iteration budget

\* 2D input points of kmeans.
Pts == {<<0, 0>>, <<2, 0>>, <<0, 4>>, <<6, 6>>}

\* Raw coordinates, viewport sizes and paddings handed to normalize2D.
RawPts   == {<<0, 0>>, <<10, 10>>, <<0, 10>>, <<5, 2>>}
Dims     == {100, 30, 20}
Paddings == {10, 20}

\* Vectors handed to the projections, and the points a reduction backend
\* (a black box) may answer with, in 2D and in 3D.
ProjVecs == {<<5, 0>>, <<3, 4>>}
ProjPts  == {<<0, 0>>, <<1, 2>>}
ProjPts3 == {<<0, 0, 0>>, <<1, 2, -1>>}

---------------------------------------------------------------------------
(* utils/embeddings.ts *)

RECURSIVE DotSum(_, _, _)
DotSum(a, b, n) == IF n = 0 THEN 0 ELSE DotSum(a, b, n - 1) + a[n] * b[n]

\* for (i < a.length) s += a[i] * b[i]: entries of b beyond a.length are
\* never read; a missing b[i] is undefined and the sum becomes NaN.
dot(a, b) == IF Len(a) > Len(b) THEN NaN ELSE DotSum(a, b, Len(a))

cosine(a, b) == dot(a, b)

IsUnit(v) == dot(v, v) = UnitSq

\* Mutant: the cosine is stored without the remap to 0..1.
SimCellNoRemap(a, b) == 2 * cosine(a, b)

\* (cosine + 1) / 2 as a numerator over 2 * UnitSq.
SimCell(a, b) == cosine(a, b) + UnitSq
SimOne  == 2 * UnitSq      \* 1.0
SimHalf == UnitSq          \* 0.5

\* Mutant: the mirror write M[j][i] = s is missing, the lower triangle keeps
\* the 0 it was filled with.
buildSimMatrixNoMirror(vs) ==
    [i \in 1..Len(vs) |-> [j \in 1..Len(vs) |->
        IF j >= i THEN SimCell(vs[i], vs[j]) ELSE 0]]

\* Mutant: the matrix is allocated with at least one row (n || 1).
buildSimMatrixAtLeastOne(vs) ==
    [i \in 1..Max(Len(vs), 1) |-> [j \in 1..Max(Len(vs), 1) |->
        IF i <= Len(vs) /\ j <= Len(vs)
        THEN SimCell(vs[Min(i, j)], vs[Max(i, j)]) ELSE 0]]

\* The loop writes M[i][j] and M[j][i] for j >= i only: cell (i, j) holds
\* the value computed for the pair (min, max).
buildSimMatrix(vs) ==
    [i \in 1..Len(vs) |-> [j \in 1..Len(vs) |->
        SimCell(vs[Min(i, j)], vs[Max(i, j)])]]

\* Mutant: the test j !== i is missing.
RECURSIVE SimsFromWithSelf(_, _, _)
SimsFromWithSelf(vs, i, j) ==
    IF j > Len(vs) THEN <<>>
    ELSE <<[j |-> j - 1, s |-> cosine(vs[i], vs[j])]>>
         \o SimsFromWithSelf(vs, i, j + 1)

\* sims of point i: every j # i in index order, j stored 0-based.
RECURSIVE SimsFrom(_, _, _)
SimsFrom(vs, i, j) ==
    IF j > Len(vs) THEN <<>>
    ELSE (IF j # i THEN <<[j |-> j - 1, s |-> cosine(vs[i], vs[j])]>> ELSE <<>>)
         \o SimsFrom(vs, i, j + 1)

\* Mutant: an unstable sort, x goes in front of the elements it ties with.
RECURSIVE InsertDescUnstable(_, _)
InsertDescUnstable(sorted, x) ==
    IF sorted = <<>> THEN <<x>>
    ELSE IF Head(sorted).s - x.s <= 0
         THEN <<x>> \o sorted
         ELSE <<Head(sorted)>> \o InsertDescUnstable(Tail(sorted), x)

\* Array.prototype.sort with comparator (a, b) => b.s - a.s: a stable sort,
\* descending by s.  x goes behind every element that does not compare
\* after it.
RECURSIVE InsertDesc(_, _)
InsertDesc(sorted, x) ==
    IF sorted = <<>> THEN <<x>>
    ELSE IF Head(sorted).s - x.s < 0
         THEN <<x>> \o sorted
         ELSE <<Head(sorted)>> \o InsertDesc(Tail(sorted), x)

RECURSIVE SortDescFrom(_, _, _)
SortDescFrom(s, n, acc) ==
    IF n > Len(s) THEN acc ELSE SortDescFrom(s, n + 1, InsertDesc(acc, s[n]))

SortDesc(s) == SortDescFrom(s, 1, <<>>)

\* Array.prototype.slice(0, end): a negative end counts from the back.
Slice0(s, end) ==
    LET e == IF end < 0 THEN Max(Len(s) + end, 0) ELSE Min(end, Len(s))
    IN  SubSeq(s, 1, e)

\* Mutant: the list is cut to k before it is ranked.
nearestNeighborsCutFirst(vs, kk) ==
    [i \in 1..Len(vs) |-> SortDesc(Slice0(SimsFrom(vs, i, 1), kk))]

nearestNeighbors(vs, kk) ==
    [i \in 1..Len(vs) |-> Slice0(SortDesc(SimsFrom(vs, i, 1)), kk)]

---------------------------------------------------------------------------
(* utils/clustering.ts: kmeans.  A centroid is the exact rational point    *)
(* (x / d, y / d) with d > 0; a squared distance is the rational n / d.    *)

\* [...points[i]]
CenterAt(p) == [x |-> p[1], y |-> p[2], d |-> 1]

\* Mutant: the centroids are taken from the end of the input.
InitCentersFromEnd(ps, kk) ==
    [c \in 1..Min(kk, Len(ps)) |-> CenterAt(ps[Len(ps) - c + 1])]

\* for (let i = 0; i < k && i < n; i++) centers.push([...points[i]])
InitCenters(ps, kk) == [c \in 1..Min(kk, Len(ps)) |-> CenterAt(ps[c])]

\* dx * dx + dy * dy for point p and centroid c.
Dist2(p, c) ==
    [n |-> (p[1] * c.d - c.x) * (p[1] * c.d - c.x)
           + (p[2] * c.d - c.y) * (p[2] * c.d - c.y),
     d |-> c.d * c.d]

\* Mutant: the scan also replaces best by an equally near centroid.
CloserOrEqual(dist, best) ==
    \/ best.inf
    \/ dist.n * best.bestd.d <= best.bestd.n * dist.d

\* d < bestd, bestd = Infinity while no centroid has been seen.
Closer(dist, best) ==
    \/ best.inf
    \/ dist.n * best.bestd.d < best.bestd.n * dist.d

\* Mutant: the scan stores the 1-based position of the centroid.
RECURSIVE NearestOneBased(_, _, _, _)
NearestOneBased(p, cs, c, best) ==
    IF c > Len(cs) THEN best.best + 1
    ELSE IF Closer(Dist2(p, cs[c]), best)
         THEN NearestOneBased(p, cs, c + 1,
                  [best |-> c - 1, inf |-> FALSE, bestd |-> Dist2(p, cs[c])])
         ELSE NearestOneBased(p, cs, c + 1, best)

\* The scan over the centroids: best starts at 0 and is replaced only by a
\* strictly nearer centroid.  Returns the 0-based index.
RECURSIVE Nearest(_, _, _, _)
Nearest(p, cs, c, best) ==
    IF c > Len(cs) THEN best.best
    ELSE IF Closer(Dist2(p, cs[c]), best)
         THEN Nearest(p, cs, c + 1,
                  [best |-> c - 1, inf |-> FALSE, bestd |-> Dist2(p, cs[c])])
         ELSE Nearest(p, cs, c + 1, best)

ScanStart == [best |-> 0, inf |-> TRUE, bestd |-> [n |-> 0, d |-> 1]]

\* labels[i] = best, for every point.
Assign(ps, cs) == [i \in 1..Len(ps) |-> Nearest(ps[i], cs, 1, ScanStart)]

RECURSIVE SumAxis(_, _, _, _, _)
SumAxis(ps, ls, c, axis, i) ==
    IF i = 0 THEN 0
    ELSE SumAxis(ps, ls, c, axis, i - 1)
         + (IF ls[i] = c THEN ps[i][axis] ELSE 0)

Count(ls, c) == Cardinality({i \in 1..Len(ls) : ls[i] = c})

\* Mutant: a centroid without points is reseeded at the first point.
RecenterReseeding(ps, ls, cs) ==
    [c \in 1..Len(cs) |->
        IF Count(ls, c - 1) > 0
        THEN [x |-> SumAxis(ps, ls, c - 1, 1, Len(ps)),
              y |-> SumAxis(ps, ls, c - 1, 2, Len(ps)),
              d |-> Count(ls, c - 1)]
        ELSE CenterAt(ps[1])]

\* if (cnt[c] > 0) centers[c] = sum[c] / cnt[c]; otherwise the centroid is
\* left as it is.
Recenter(ps, ls, cs) ==
    [c \in 1..Len(cs) |->
        IF Count(ls, c - 1) > 0
        THEN [x |-> SumAxis(ps, ls, c - 1, 1, Len(ps)),
              y |-> SumAxis(ps, ls, c - 1, 2, Len(ps)),
              d |-> Count(ls, c - 1)]
        ELSE cs[c]]

\* The cluster count the app derives from the number of points:
\* min(5, max(2, floor(sqrt(max(1, M) / 3)))).
FloorSqrtThird(m) == CHOOSE r \in 0..m : 3 * r * r <= m /\ 3 * (r + 1) * (r + 1) > m
DerivedK(m) == Min(5, Max(2, FloorSqrtThird(Max(1, m))))

---------------------------------------------------------------------------
(* utils/clustering.ts: normalize2D.  An output coordinate is the exact    *)
(* rational n / d, d being the span the code divides by.                   *)

RECURSIVE MinAxis(_, _, _)
MinAxis(cs, axis, i) ==
    IF i = 1 THEN cs[1][axis] ELSE Min(MinAxis(cs, axis, i - 1), cs[i][axis])

RECURSIVE MaxAxis(_, _, _)
MaxAxis(cs, axis, i) ==
    IF i = 1 THEN cs[1][axis] ELSE Max(MaxAxis(cs, axis, i - 1), cs[i][axis])

\* Mutant: the "|| 1" is missing, a zero span is divided by.
SpanNoDefault(mx, mn) == mx - mn

\* maxX - minX || 1
Span(mx, mn) == IF mx - mn = 0 THEN 1 ELSE mx - mn

\* Mutant: the padding is taken off one side only.
InnerPadOnce(size, padv) == size - padv

\* width - pad * 2
Inner(size, padv) == size - padv * 2

\* pad + ((x - min) / span) * W
Place(x, mn, span, padv, W) == [n |-> padv * span + (x - mn) * W, d |-> span]

normalize2D(cs, w, h, padv) ==
    IF Len(cs) = 0 THEN <<>>
    ELSE LET minX  == MinAxis(cs, 1, Len(cs))
             maxX  == MaxAxis(cs, 1, Len(cs))
             minY  == MinAxis(cs, 2, Len(cs))
             maxY  == MaxAxis(cs, 2, Len(cs))
             spanX == Span(maxX, minX)
             spanY == Span(maxY, minY)
             W     == Inner(w, padv)
             H     == Inner(h, padv)
         IN  [i \in 1..Len(cs) |->
                <<Place(cs[i][1], minX, spanX, padv, W),
                  Place(cs[i][2], minY, spanY, padv, H)>>]

---------------------------------------------------------------------------
(* App: the coordsRaw memo; Visualization3D: reduceTo3D and the scene      *)
(* effect.  PCA and UMAP are black boxes: a call either throws or answers  *)
(* with one point per row.                                                 *)

\* X.map((_v, i) => [i * 30, i * 30]), i the 0-based index.
Placeholder(n) == [i \in 1..n |-> <<(i - 1) * 30, (i - 1) * 30>>]

\* rand(i) = frac(sin(1337 + i) * 10000), in thousandths, for the indices
\* the weight vectors of 2-component inputs read.
rand(i) == CASE i = 0  -> 656
             [] i = 1  -> 857
             [] i = 17 -> 306
             [] i = 18 -> 35

\* a[i] = rand(i) - 0.5 and b[i] = rand(i + 17) - 0.5 for i < d.
WeightA(d) == [i \in 1..d |-> rand(i - 1) - 500]
WeightB(d) == [i \in 1..d |-> rand(i - 1 + 17) - 500]

\* The catch branch: vectors.map(v => [dot(v, a), dot(v, b)]).
FallbackProjection(vs) ==
    LET d == Len(vs[1])
    IN  [i \in 1..Len(vs) |-> <<dot(vs[i], WeightA(d)), dot(vs[i], WeightB(d))>>]

\* The answers a backend may give for n rows.
BackendAnswers(n)  == [1..n -> ProjPts]
BackendAnswers3(n) == [1..n -> ProjPts3]

\* row => [row[0] * 15, row[1] * 15, row[2] * 15]
Scale15(Y) == [i \in 1..Len(Y) |-> <<Y[i][1] * 15, Y[i][2] * 15, Y[i][3] * 15>>]

---------------------------------------------------------------------------
(* Idle values of the components a specification does not run *)

IdleVec  == /\ vectors = <<>> /\ k = 0 /\ M = <<>> /\ result = <<>>
IdleKM   == /\ points = <<>> /\ kc = 0 /\ iters = 0 /\ it = 0
            /\ centers = <<>> /\ labels = <<>> /\ kpc = "idle"
IdleNorm == /\ coords = <<>> /\ width = 0 /\ height = 0 /\ pad = 0
            /\ out = <<>>
IdleDot  == /\ dotA = <<>> /\ dotB = <<>> /\ dotResult = 0
IdleApp  == /\ version = "none" /\ engine = "minilm" /\ dim = 0
            /\ words = <<>> /\ newWord = <<>> /\ selected = <<>>
            /\ realStore = [w \in {} |-> <<>>] /\ ready = FALSE
            /\ failing = {} /\ runs = {} /\ effectPending = FALSE
            /\ editsLeft = 0
IdleToy  == /\ toyWord = <<>> /\ toyDim = 0 /\ toyOut = <<>>
            /\ toyOutLower = <<>>
IdleDeb  == /\ component = "none" /\ text = <<>> /\ tokenizer = FALSE
            /\ timers = {} /\ since = 0 /\ runCount = 0
            /\ depChanges = 0 /\ lastRun = [text |-> <<>>, quiet |-> 0]
IdleMdl  == /\ extractor = "null" /\ modelTokenizer = "null"
            /\ fallbackTokenizer = "null" /\ modelError = "null"
            /\ loadingModel = FALSE /\ load = "none"
            /\ loaderDue = FALSE /\ previewDue = FALSE
            /\ previewTimer = {} /\ inflight = {}
            /\ previewText = <<>> /\ previewEmbedding = <<>>
            /\ attempts = 0 /\ retries = 0 /\ calls = 0 /\ thrown = {}
IdleScene == /\ dark = TRUE /\ query = <<>> /\ searchProps = <<>>
             /\ clientWidth = 0 /\ clientHeight = 0
             /\ sceneProps = <<>> /\ scenePc = "none" /\ scene = <<>>
             /\ retryTimers = 0 /\ now = 0 /\ lastTouchTime = 0
             /\ touch = <<>> /\ selectCalls = 0 /\ painted = <<>>
IdleTail == IdleMdl /\ IdleScene
IdleLate == IdleApp /\ IdleToy /\ IdleDeb /\ IdleTail
IdleExt  == IdleDot /\ IdleLate
IdleProj == /\ method = "umap" /\ coordsRaw = <<>> /\ backendCalls = <<>>
            /\ pcaAnalysis = [set |-> FALSE, coords |-> <<>>]
            /\ error = Null /\ isLoading = TRUE

---------------------------------------------------------------------------
(* Specification SpecVectors: buildSimMatrix and nearestNeighbors applied  *)
(* to a vector list.                                                       *)

InitVectors ==
    /\ vectors \in SeqsBetween(Vecs, 0, MaxN)
    /\ k \in 1..MaxK
    /\ M = <<>>
    /\ result = <<>>
    /\ ran = {}
    /\ IdleKM /\ IdleNorm /\ IdleProj /\ IdleExt

BuildSimMatrix ==
    /\ "buildSimMatrix" \notin ran
    /\ M' = buildSimMatrix(vectors)
    /\ ran' = ran \cup {"buildSimMatrix"}
    /\ UNCHANGED <<vectors, k, result, kmVars, normVars, projVars, extVars>>

NearestNeighbors ==
    /\ "nearestNeighbors" \notin ran
    /\ result' = nearestNeighbors(vectors, k)
    /\ ran' = ran \cup {"nearestNeighbors"}
    /\ UNCHANGED <<vectors, k, M, kmVars, normVars, projVars, extVars>>

NextVectors == BuildSimMatrix \/ NearestNeighbors

SpecVectors == InitVectors /\ [][NextVectors]_vars

---------------------------------------------------------------------------
(* Claims about nearestNeighbors and buildSimMatrix (SpecVectors) *)

NNDone  == "nearestNeighbors" \in ran
SimDone == "buildSimMatrix" \in ran
N       == Len(vectors)

\* The 0-based indices listed for point i.
Kept(i) == {result[i][p].j : p \in 1..Len(result[i])}

\* C1: nearestNeighbors returns one list per point i; the list never
\* contains i itself, has at most min(k, N-1) entries and is sorted in
\* descending order of similarity s.
C1_NeighborsSafe ==
    NNDone =>
        /\ Len(result) = N
        /\ \A i \in 1..N :
              /\ \A p \in 1..Len(result[i]) : result[i][p].j # i - 1
              /\ Len(result[i]) <= Min(k, N - 1)
              /\ \A p, q \in 1..Len(result[i]) :
                    p < q => result[i][p].s >= result[i][q].s

\* A list that was cut (k < N-1) and holds two different similarities.
C1_Witness ==
    /\ NNDone /\ N = 4 /\ k = 2
    /\ \E i \in 1..N : Len(result[i]) = 2 /\ result[i][1].s > result[i][2].s

\* C2: every list has exactly min(k, N-1) entries, each the raw cosine of a
\* different point j # i, and they are the true top-k: no point left out
\* is more similar to i than a point that is kept.
C2_TrueTopK ==
    NNDone =>
        \A i \in 1..N :
            /\ Len(result[i]) = Min(k, N - 1)
            /\ Cardinality(Kept(i)) = Len(result[i])
            /\ \A p \in 1..Len(result[i]) :
                  /\ result[i][p].j \in (0..N - 1) \ {i - 1}
                  /\ result[i][p].s = dot(vectors[i], vectors[result[i][p].j + 1])
            /\ \A j \in ((0..N - 1) \ {i - 1}) \ Kept(i) :
                  \A p \in 1..Len(result[i]) :
                      dot(vectors[i], vectors[j + 1]) <= result[i][p].s

\* Four points, k = 2: the two kept for point 0 are not the first two in
\* index order, and the one left out is strictly less similar; and a
\* list that holds all N-1 others because N-1 < k.
C2_Witness ==
    /\ NNDone /\ N = 4 /\ k = 2
    /\ result[1][1].j = 3 /\ result[1][2].j = 2
    /\ dot(vectors[1], vectors[2]) < result[1][2].s

\* C3: ties are broken stably: among entries of equal similarity the lower
\* original index comes first, and when the cut at k goes through a group
\* of equal scores the lower-indexed points are the ones kept.
C3_StableTies ==
    NNDone =>
        \A i \in 1..N :
            /\ \A p, q \in 1..Len(result[i]) :
                  (p < q /\ result[i][p].s = result[i][q].s)
                      => result[i][p].j < result[i][q].j
            /\ \A j \in ((0..N - 1) \ {i - 1}) \ Kept(i) :
                  \A p \in 1..Len(result[i]) :
                      dot(vectors[i], vectors[j + 1]) = result[i][p].s
                          => result[i][p].j < j

\* The cut goes through a tie: a point left out has the same similarity
\* as the last one kept, and two kept entries tie as well.
C3_Witness ==
    /\ NNDone /\ N = 4 /\ k = 2
    /\ \E i \in 1..N :
          /\ result[i][1].s = result[i][2].s
          /\ \E j \in ((0..N - 1) \ {i - 1}) \ Kept(i) :
                dot(vectors[i], vectors[j + 1]) = result[i][2].s

\* C4 as stated: for all vector sets the matrix is symmetric and every
\* diagonal cell equals 1.0.
C4_AsStated ==
    SimDone =>
        /\ \A i, j \in 1..N : M[i][j] = M[j][i]
        /\ \A i \in 1..N : M[i][i] = SimOne

\* C4 (amended): for all vector sets the matrix is symmetric; the diagonal
\* cell of every unit-normalized vector equals 1.0, and when all vectors
\* are unit-normalized 1.0 is the maximum of the matrix.
C4_SymmetricUnitDiagonal ==
    SimDone =>
        /\ \A i, j \in 1..N : M[i][j] = M[j][i]
        /\ \A i \in 1..N : IsUnit(vectors[i]) => M[i][i] = SimOne
        /\ (\A i \in 1..N : IsUnit(vectors[i]))
              => \A i, j \in 1..N : M[i][j] <= M[i][i]

\* Three different unit vectors: an off-diagonal cell below 1.0.
C4_Witness ==
    /\ SimDone /\ N = 3
    /\ \A i \in 1..N : IsUnit(vectors[i])
    /\ M[1][2] < SimOne /\ M[3][1] # M[3][2]

\* C5: buildSimMatrix returns an N x N matrix whose cell (i, j) is
\* (dot(v_i, v_j) + 1) / 2; for unit-normalized inputs every cell lies in
\* [0, 1], one unit vector gives the 1 x 1 matrix [[1.0]], and orthogonal
\* unit vectors give 0.5.
C5_SimMatrixCells ==
    SimDone =>
        /\ Len(M) = N
        /\ \A i \in 1..N :
              /\ Len(M[i]) = N
              /\ \A j \in 1..N : M[i][j] = dot(vectors[i], vectors[j]) + UnitSq
        /\ (\A i \in 1..N : IsUnit(vectors[i])) =>
              /\ \A i, j \in 1..N : 0 <= M[i][j] /\ M[i][j] <= SimOne
              /\ N = 1 => M = <<(<<SimOne>>)>>
              /\ \A i, j \in 1..N :
                    dot(vectors[i], vectors[j]) = 0 => M[i][j] = SimHalf

\* Unit vectors with an orthogonal pair below the diagonal (0.5) and an
\* opposite pair (0).
C5_Witness ==
    /\ SimDone /\ N = 4
    /\ \A i \in 1..N : IsUnit(vectors[i])
    /\ M[2][1] = SimHalf /\ M[4][3] = 0

---------------------------------------------------------------------------
(* Specification SpecKMeans: one call of kmeans(points, kc, iters), the    *)
(* outer loop one iteration at a time.                                     *)

InitKMeans ==
    /\ points \in SeqsBetween(Pts, 0, MaxM)
    /\ kc \in (1..MaxKc) \cup {DerivedK(Len(points))}
    /\ iters \in 0..MaxIters
    /\ it = 0 /\ centers = <<>> /\ labels = <<>>
    /\ kpc = "start"
    /\ ran = {}
    /\ IdleVec /\ IdleNorm /\ IdleProj /\ IdleExt

\* Lines 3-7: the empty input returns at once; otherwise the centroids are
\* the first points and every label is 0.
KMeansStart ==
    /\ kpc = "start"
    /\ IF Len(points) = 0
       THEN /\ kpc' = "done"
            /\ ran' = ran \cup {"kmeans"}
            /\ UNCHANGED <<centers, labels>>
       ELSE /\ centers' = InitCenters(points, kc)
            /\ labels' = [i \in 1..Len(points) |-> 0]
            /\ kpc' = "loop"
            /\ ran' = ran
    /\ it' = 0
    /\ UNCHANGED <<points, kc, iters, vecVars, normVars, projVars, extVars>>

\* Lines 8-33: one iteration, the assignment and then the recentering.
KMeansIterate ==
    /\ kpc = "loop" /\ it < iters
    /\ labels' = Assign(points, centers)
    /\ centers' = Recenter(points, labels', centers)
    /\ it' = it + 1
    /\ UNCHANGED <<points, kc, iters, kpc, ran, vecVars, normVars, projVars, extVars>>

\* Line 34.
KMeansReturn ==
    /\ kpc = "loop" /\ ~(it < iters)
    /\ kpc' = "done"
    /\ ran' = ran \cup {"kmeans"}
    /\ UNCHANGED <<points, kc, iters, it, centers, labels,
                   vecVars, normVars, projVars, extVars>>

NextKMeans == KMeansStart \/ KMeansIterate \/ KMeansReturn

SpecKMeans == InitKMeans /\ [][NextKMeans]_vars

---------------------------------------------------------------------------
(* Specification SpecNormalize: one call of normalize2D.                   *)

InitNormalize ==
    /\ coords \in SeqsBetween(RawPts, 0, MaxM)
    /\ width \in Dims /\ height \in Dims /\ pad \in Paddings
    /\ out = <<>>
    /\ ran = {}
    /\ IdleVec /\ IdleKM /\ IdleProj /\ IdleExt

Normalize2D ==
    /\ "normalize2D" \notin ran
    /\ out' = normalize2D(coords, width, height, pad)
    /\ ran' = ran \cup {"normalize2D"}
    /\ UNCHANGED <<coords, width, height, pad, vecVars, kmVars, projVars, extVars>>

NextNormalize == Normalize2D

SpecNormalize == InitNormalize /\ [][NextNormalize]_vars

---------------------------------------------------------------------------
(* Specification SpecProjection: the 2D projection memo of the App and the *)
(* 3D scene effect of Visualization3D, both over the same vector list.     *)
(* The scene effect is taken with its container mounted and sized.         *)

InitProjection ==
    /\ vectors \in SeqsBetween(ProjVecs, 0, MaxN)
    /\ method \in {"pca", "umap"}
    /\ coordsRaw = <<>>
    /\ backendCalls = <<>>
    /\ pcaAnalysis = [set |-> FALSE, coords |-> <<>>]
    /\ error = Null
    /\ isLoading = TRUE
    /\ k = 0 /\ M = <<>> /\ result = <<>>
    /\ ran = {}
    /\ IdleKM /\ IdleNorm /\ IdleExt

\* The coordsRaw memo.  throws: whether the selected backend throws;
\* Y: what it answers otherwise.
CoordsRaw(throws, Y) ==
    /\ "coordsRaw" \notin ran
    /\ ran' = ran \cup {"coordsRaw"}
    /\ IF Len(vectors) = 0
       THEN coordsRaw' = <<>> /\ UNCHANGED backendCalls
       ELSE IF Len(vectors) < 3
       THEN coordsRaw' = Placeholder(Len(vectors)) /\ UNCHANGED backendCalls
       ELSE /\ backendCalls' = Append(backendCalls, method)
            /\ coordsRaw' = IF throws THEN FallbackProjection(vectors) ELSE Y
    /\ UNCHANGED <<vectors, k, M, result, method, pcaAnalysis, error,
                   isLoading, kmVars, normVars, extVars>>

\* The scene effect: nothing for an empty vector list; otherwise
\* initializeScene runs reduceTo3D, which always calls PCA, inside a try
\* whose catch shows the error.
InitializeScene(throws, Y) ==
    /\ "initializeScene" \notin ran
    /\ ran' = ran \cup {"initializeScene"}
    /\ IF Len(vectors) = 0
       THEN UNCHANGED <<backendCalls, pcaAnalysis, error, isLoading>>
       ELSE /\ backendCalls' = Append(backendCalls, "pca3d")
            /\ isLoading' = FALSE
            /\ IF throws
               THEN /\ error' = "pca failed"
                    /\ UNCHANGED pcaAnalysis
               ELSE /\ error' = Null
                    /\ pcaAnalysis' = [set |-> TRUE, coords |-> Scale15(Y)]
    /\ UNCHANGED <<vectors, k, M, result, method, coordsRaw, kmVars, normVars, extVars>>

NextProjection ==
    \/ \E throws \in BOOLEAN : \E Y \in BackendAnswers(Len(vectors)) :
          CoordsRaw(throws, Y)
    \/ \E throws \in BOOLEAN : \E Y \in BackendAnswers3(Len(vectors)) :
          InitializeScene(throws, Y)

SpecProjection == InitProjection /\ [][NextProjection]_vars

---------------------------------------------------------------------------
(* Claims about kmeans (SpecKMeans) *)

KMeansDone == kpc = "done"

\* C6: for every point set of size M >= 1, every cluster count k >= 1
\* (also the derived one, which may exceed M) and every iteration budget,
\* kmeans returns exactly one label per point, each an integer in [0, k).
C6_LabelsInRange ==
    (KMeansDone /\ Len(points) >= 1) =>
        /\ Len(labels) = Len(points)
        /\ \A i \in 1..Len(points) : labels[i] \in 0..kc - 1

\* A run of the full budget that uses the last cluster, and the derived
\* count exceeding the number of points.
C6_Witness ==
    /\ KMeansDone /\ Len(points) = 3 /\ kc = 3 /\ it = MaxIters
    /\ \E i \in 1..3 : labels[i] = kc - 1

C6_WitnessDerived ==
    /\ KMeansDone /\ Len(points) = 1 /\ kc = DerivedK(1) /\ kc > Len(points)
    /\ it >= 1

---------------------------------------------------------------------------
(* Claims about normalize2D (SpecNormalize) *)

NormDone == "normalize2D" \in ran
Dim(axis) == IF axis = 1 THEN width ELSE height
RawMin(axis) == MinAxis(coords, axis, Len(coords))
RawMax(axis) == MaxAxis(coords, axis, Len(coords))

\* Comparisons of the rational n / d (d # 0) with an integer v.
RatEq(r, v) == r.d # 0 /\ r.n = v * r.d
RatGeq(r, v) == r.d # 0 /\ (IF r.d > 0 THEN r.n >= v * r.d ELSE r.n <= v * r.d)
RatLeq(r, v) == r.d # 0 /\ (IF r.d > 0 THEN r.n <= v * r.d ELSE r.n >= v * r.d)

\* C7 as stated: for all non-empty point sets, widths, heights and
\* paddings every coordinate lies within [pad, dimension - pad], the
\* minimum of an axis maps to pad and the maximum to dimension - pad.
C7_AsStated ==
    (NormDone /\ Len(coords) >= 1) =>
        \A axis \in 1..2 : \A i \in 1..Len(coords) :
            /\ RatGeq(out[i][axis], pad)
            /\ RatLeq(out[i][axis], Dim(axis) - pad)
            /\ coords[i][axis] = RawMin(axis) => RatEq(out[i][axis], pad)
            /\ coords[i][axis] = RawMax(axis)
                  => RatEq(out[i][axis], Dim(axis) - pad)

\* C7 (amended): for all non-empty point sets, on each axis the point
\* with the minimum raw value maps to exactly pad; when the raw values of
\* the axis are not all equal the point with the maximum maps to exactly
\* dimension - pad; and when dimension >= 2 * pad every coordinate lies
\* within [pad, dimension - pad].
C7_NormalizedRange ==
    (NormDone /\ Len(coords) >= 1) =>
        /\ Len(out) = Len(coords)
        /\ \A axis \in 1..2 : \A i \in 1..Len(coords) :
            /\ Dim(axis) >= 2 * pad =>
                  /\ RatGeq(out[i][axis], pad)
                  /\ RatLeq(out[i][axis], Dim(axis) - pad)
            /\ coords[i][axis] = RawMin(axis) => RatEq(out[i][axis], pad)
            /\ (coords[i][axis] = RawMax(axis) /\ RawMax(axis) # RawMin(axis))
                  => RatEq(out[i][axis], Dim(axis) - pad)

\* [[0,0],[10,10]] with width = height = 100 and pad = 10 gives
\* [[10,10],[90,90]].
C7_Witness ==
    /\ NormDone
    /\ coords = <<(<<0, 0>>), (<<10, 10>>)>>
    /\ width = 100 /\ height = 100 /\ pad = 10
    /\ \A axis \in 1..2 : RatEq(out[1][axis], 10) /\ RatEq(out[2][axis], 90)

\* C8: when all points share one value on an axis the span is taken as 1,
\* nothing is divided by zero and every point is placed at exactly pad on
\* that axis, whatever the other axis looks like.
C8_ZeroSpan ==
    (NormDone /\ Len(coords) >= 1) =>
        \A axis \in 1..2 :
            RawMax(axis) = RawMin(axis) =>
                \A i \in 1..Len(coords) :
                    /\ out[i][axis].d = 1
                    /\ RatEq(out[i][axis], pad)

\* The x axis has zero span and the y axis has not: x is pad for all,
\* y is spread.
C8_Witness ==
    /\ NormDone /\ Len(coords) = 2
    /\ RawMax(1) = RawMin(1) /\ RawMax(2) # RawMin(2)
    /\ RatEq(out[1][1], pad) /\ RatEq(out[2][1], pad)
    /\ ~RatEq(out[2][2], pad)

---------------------------------------------------------------------------
(* Claims about the projections (SpecProjection) *)

Projected2D == "coordsRaw" \in ran
Projected3D == "initializeScene" \in ran

\* C9: whenever a projection is requested for N = 1 or N = 2 vectors, the
\* result is the diagonal placeholder (point i at [i*30, i*30]) and no
\* external reduction backend is invoked.
C9_SmallInputBypassesBackend ==
    N \in 1..2 =>
        /\ Projected2D => coordsRaw = Placeholder(N)
        /\ Projected3D =>
              /\ pcaAnalysis.set
              /\ \A i \in 1..N : \A axis \in 1..3 :
                    pcaAnalysis.coords[i][axis] = (i - 1) * 30
        /\ backendCalls = <<>>

\* The 2D memo alone does what C9 says: placeholder, and no backend call
\* of its own.
C9_CoordsRawBypasses ==
    (N \in 1..2 /\ Projected2D) =>
        /\ coordsRaw = Placeholder(N)
        /\ \A c \in 1..Len(backendCalls) : backendCalls[c] = "pca3d"

C9_CoordsRawWitness ==
    /\ N = 2 /\ Projected2D /\ coordsRaw = <<(<<0, 0>>), (<<30, 30>>)>>

\* C10: if the backend throws on N >= 3 vectors the failure is never
\* surfaced: the projection still returns exactly N points, point i being
\* the dot products of vector i with the seeded weight vectors.  A backend
\* that was called and did not answer has thrown.
C10_BackendFailureRecovered ==
    N >= 3 =>
        /\ (Projected2D /\ \A Y \in BackendAnswers(N) : coordsRaw # Y) =>
              /\ Len(coordsRaw) = N
              /\ \A i \in 1..N :
                    coordsRaw[i] = <<dot(vectors[i], WeightA(2)),
                                    dot(vectors[i], WeightB(2))>>
        /\ Projected3D =>
              /\ error = Null
              /\ pcaAnalysis.set
              /\ Len(pcaAnalysis.coords) = N

\* The 2D memo alone does what C10 says.
C10_CoordsRawRecovers ==
    (N >= 3 /\ Projected2D /\ \A Y \in BackendAnswers(N) : coordsRaw # Y) =>
        /\ Len(coordsRaw) = N
        /\ \A i \in 1..N :
              coordsRaw[i] = <<dot(vectors[i], WeightA(2)),
                              dot(vectors[i], WeightB(2))>>

C10_CoordsRawWitness ==
    /\ N = 3 /\ Projected2D /\ backendCalls = <<"umap">>
    /\ coordsRaw = <<(<<780, -970>>), (<<1896, -2442>>), (<<780, -970>>)>>

---------------------------------------------------------------------------
(* Specification SpecStages: one pass of every stage over inputs of the    *)
(* same size, zero points or one: buildSimMatrix, nearestNeighbors, the    *)
(* coordsRaw memo, normalize2D and kmeans.                                 *)

InitStages ==
    \E n \in 0..1 :
        /\ vectors \in [1..n -> ProjVecs]
        /\ points \in [1..n -> Pts]
        /\ coords \in [1..n -> RawPts]
        /\ k \in 1..MaxK
        /\ kc \in {1, DerivedK(n)}
        /\ iters \in {0, MaxIters}
        /\ width \in Dims /\ height = width /\ pad \in Paddings
        /\ method \in {"pca", "umap"}
        /\ M = <<>> /\ result = <<>> /\ out = <<>>
        /\ it = 0 /\ centers = <<>> /\ labels = <<>> /\ kpc = "start"
        /\ coordsRaw = <<>> /\ backendCalls = <<>>
        /\ pcaAnalysis = [set |-> FALSE, coords |-> <<>>]
        /\ error = Null /\ isLoading = TRUE
        /\ ran = {}
        /\ IdleExt

\* The stages leave each other's variables alone, so their actions are the
\* ones of the single-stage specifications.
NextStages ==
    \/ BuildSimMatrix
    \/ NearestNeighbors
    \/ \E throws \in BOOLEAN : \E Y \in BackendAnswers(Len(vectors)) :
          CoordsRaw(throws, Y)
    \/ Normalize2D
    \/ KMeansStart
    \/ KMeansIterate
    \/ KMeansReturn

SpecStages == InitStages /\ [][NextStages]_vars

\* C11: with zero points every stage returns an empty output:
\* buildSimMatrix([]) and nearestNeighbors([], k) are empty, the projection
\* of an empty word list is empty (no backend called), normalize2D([]) is
\* empty and kmeans([]) returns no labels, also with the derived count.
C11_EmptyOutputs ==
    /\ ("buildSimMatrix" \in ran /\ vectors = <<>>) => M = <<>>
    /\ ("nearestNeighbors" \in ran /\ vectors = <<>>) => result = <<>>
    /\ ("coordsRaw" \in ran /\ vectors = <<>>)
          => (coordsRaw = <<>> /\ backendCalls = <<>>)
    /\ ("normalize2D" \in ran /\ coords = <<>>) => out = <<>>
    /\ (kpc = "done" /\ points = <<>>) => (labels = <<>> /\ centers = <<>>)

\* All five stages have returned for zero points, kmeans with the count
\* the app derives for an empty list.
C11_Witness ==
    /\ vectors = <<>> /\ coords = <<>> /\ points = <<>>
    /\ kc = DerivedK(0)
    /\ ran = {"buildSimMatrix", "nearestNeighbors", "coordsRaw",
              "normalize2D", "kmeans"}
    /\ kpc = "done"

---------------------------------------------------------------------------
(* Specification SpecDot: one call of dot or of cosine on two vectors of   *)
(* any two lengths.  Neither function has a throw: every call returns.     *)

InitDot ==
    /\ dotA \in SeqsBetween(DotVals, 0, MaxLen)
    /\ dotB \in SeqsBetween(DotVals, 0, MaxLen)
    /\ dotResult = 0
    /\ ran = {}
    /\ IdleVec /\ IdleKM /\ IdleNorm /\ IdleProj /\ IdleLate

Dot ==
    /\ ran = {}
    /\ dotResult' = dot(dotA, dotB)
    /\ ran' = {"dot"}
    /\ UNCHANGED <<dotA, dotB, vecVars, kmVars, normVars, projVars, lateVars>>

Cosine ==
    /\ ran = {}
    /\ dotResult' = cosine(dotA, dotB)
    /\ ran' = {"cosine"}
    /\ UNCHANGED <<dotA, dotB, vecVars, kmVars, normVars, projVars, lateVars>>

NextDot == Dot \/ Cosine

SpecDot == InitDot /\ [][NextDot]_vars

\* C12: a length mismatch is fatal to dot (and so to cosine): when the two
\* arguments differ in length the call fails explicitly, it never returns
\* a value.
C12_MismatchIsFatal ==
    Len(dotA) # Len(dotB) => ran = {}

\* What dot does on a mismatch: a longer second argument is cut to the
\* length of the first without notice, a shorter one gives NaN; either way
\* the call returns.
C12_CodeCoercesSilently ==
    ran # {} =>
        /\ Len(dotA) < Len(dotB) =>
              dotResult = DotSum(dotA, SubSeq(dotB, 1, Len(dotA)), Len(dotA))
        /\ Len(dotA) > Len(dotB) => dotResult = NaN

C12_CodeTruncatesWitness ==
    /\ ran = {"cosine"}
    /\ dotA = <<2>> /\ dotB = <<2, -1>> /\ dotResult = 4

---------------------------------------------------------------------------
(* Specification SpecNegativeK: nearestNeighbors called with a negative    *)
(* neighbor count.                                                         *)

InitNegativeK ==
    /\ vectors \in SeqsBetween(Vecs, 0, MaxN)
    /\ k \in {-j : j \in 1..MaxK}
    /\ M = <<>>
    /\ result = <<>>
    /\ ran = {}
    /\ IdleKM /\ IdleNorm /\ IdleProj /\ IdleExt

SpecNegativeK == InitNegativeK /\ [][NextVectors]_vars

\* C13: a negative neighbor count is a programmer error that propagates as
\* an explicit failure: nearestNeighbors(vectors, k) with k < 0 does not
\* return neighbor lists.
C13_NegativeKFails ==
    k < 0 => "nearestNeighbors" \notin ran

\* What the code does with k < 0: slice(0, k) drops the last -k entries of
\* the ranking, so each point gets its max(N - 1 + k, 0) best neighbors.
C13_CodeDropsFromTheEnd ==
    (k < 0 /\ "nearestNeighbors" \in ran) =>
        /\ Len(result) = Len(vectors)
        /\ \A i \in 1..Len(vectors) :
              Len(result[i]) = Max(Len(vectors) - 1 + k, 0)

C13_CodeDropsWitness ==
    /\ k = -1 /\ Len(vectors) = 4 /\ "nearestNeighbors" \in ran
    /\ Len(result[1]) = 2

---------------------------------------------------------------------------
(* Text.  A string is the sequence of its UTF-16 code units; the texts of  *)
(* the model are ASCII.                                                    *)

\* String.prototype.toLowerCase: A..Z (65..90) become a..z.
toLowerCase(w) ==
    [i \in 1..Len(w) |-> IF w[i] \in 65..90 THEN w[i] + 32 ELSE w[i]]

\* String.prototype.trim: the spaces (32) at both ends are removed.
RECURSIVE TrimStart(_)
TrimStart(w) ==
    IF w # <<>> /\ Head(w) = 32 THEN TrimStart(Tail(w)) ELSE w

RECURSIVE TrimEnd(_)
TrimEnd(w) ==
    IF w # <<>> /\ w[Len(w)] = 32
    THEN TrimEnd(SubSeq(w, 1, Len(w) - 1))
    ELSE w

trim(w) == TrimEnd(TrimStart(w))

---------------------------------------------------------------------------
(* embedWordToy (utils/clustering.ts): hashed character trigrams.  The     *)
(* 32-bit hash is kept as <<high half, low half>>, two 16-bit numbers, so  *)
(* that every product stays below 2^31.  The model returns the counts      *)
(* v[idx] before the L2 normalization: every entry of the program's result *)
(* is its count divided by the same norm, the square root of the sum of    *)
(* the squared counts.                                                     *)

Half == 2^16

\* 0x811c9dc5 and 0x01000193, in halves.
OffsetHi == 33052
OffsetLo == 40389
PrimeHi  == 256
PrimeLo  == 403

\* a ^ b on non-negative integers.
RECURSIVE Xor(_, _)
Xor(a, b) ==
    IF a = 0 THEN b
    ELSE IF b = 0 THEN a
    ELSE (((a % 2) + (b % 2)) % 2) + 2 * Xor(a \div 2, b \div 2)

\* Math.imul(h, 0x01000193) read as unsigned: the product modulo 2^32.
Imul(h) ==
    LET p == h[2] * PrimeLo
    IN  <<(h[1] * PrimeLo + h[2] * PrimeHi + (p \div Half)) % Half, p % Half>>

\* for (i < tri.length) { h ^= tri.charCodeAt(i); h = Math.imul(h, prime) }
RECURSIVE HashFrom(_, _, _)
HashFrom(tri, i, h) ==
    IF i > Len(tri) THEN h
    ELSE HashFrom(tri, i + 1, Imul(<<h[1], Xor(h[2], tri[i])>>))

\* FNV-1a, 32 bits; h >>> 0 is the unsigned reading the halves already are.
hashTri(tri) == HashFrom(tri, 1, <<OffsetHi, OffsetLo>>)

\* hashTri(tri) % dim
HashMod(h, d) == ((h[1] % d) * (Half % d) + (h[2] % d)) % d

\* Mutant: the word is hashed as typed.
MarkedAsTyped(word) == <<94, 94>> \o word \o <<36, 36>>

\* s = `^^${word.toLowerCase()}$$`
Marked(word) == <<94, 94>> \o toLowerCase(word) \o <<36, 36>>

\* idx of the trigram s.slice(i, i + 3), i 1-based here.
TriIndex(s, i, d) == HashMod(hashTri(SubSeq(s, i, i + 2)), d)

\* v = new Float32Array(dim); v[idx] += 1 for every trigram of s.
embedWordToy(word, d) ==
    LET s   == Marked(word)
        idx == [i \in 1..(Len(s) - 2) |-> TriIndex(s, i, d)]
    IN  [j \in 1..d |-> Cardinality({i \in DOMAIN idx : idx[i] = j - 1})]

\* The squared norm the program divides by (norm = Math.sqrt(norm) || 1).
NormSq(v) == dot(v, v)

---------------------------------------------------------------------------
(* Specification SpecToy: the dev self-test pattern, embedWordToy of a     *)
(* word and of the same word lower-cased, for any word and dimension.      *)

MaxWordLen == 2
ToyLetters == {65, 66, 97, 98}        \* A B a b
SelfTestDims == {2, 3, 64}

InitToy ==
    /\ toyWord \in SeqsBetween(ToyLetters, 0, MaxWordLen)
    /\ toyDim \in SelfTestDims
    /\ toyOut = <<>>
    /\ toyOutLower = <<>>
    /\ ran = {}
    /\ IdleVec /\ IdleKM /\ IdleNorm /\ IdleProj /\ IdleDot /\ IdleApp
    /\ IdleDeb /\ IdleTail

EmbedWordToy ==
    /\ ran = {}
    /\ toyOut' = embedWordToy(toyWord, toyDim)
    /\ toyOutLower' = embedWordToy(toLowerCase(toyWord), toyDim)
    /\ ran' = {"embedWordToy"}
    /\ UNCHANGED <<toyWord, toyDim, vecVars, kmVars, normVars, projVars,
                   dotVars, appVars, debVars, tailVars>>

NextToy == EmbedWordToy

SpecToy == InitToy /\ [][NextToy]_vars

---------------------------------------------------------------------------
(* The App component MuseumOfWords (unnamed/part_001, in three versions:   *)
(* MiniLM, toy + MiniLM, tokenizer): the word list, the embedding cache    *)
(* realStore, the embedding effect and the vectors memo.                   *)
(*                                                                         *)
(* A render is part of the action that changes state: the vectors memo is  *)
(* recomputed in the step that changes one of its dependencies.  Effects   *)
(* run after the render, as a step of their own.  The embedding model and  *)
(* the tokenizer are black boxes: for a word they either throw or answer   *)
(* with an entry that is a fixed function of the word.                     *)

art    == <<97, 114, 116>>
museum == <<109, 117, 115, 101, 117, 109>>
bank   == <<98, 97, 110, 107>>
bat    == <<98, 97, 116>>

Versions == {"minilm", "toy", "tokenizer"}

\* The seed list, cut to two words; the app starts from its first 16 and
\* resets to its first 12, here 2 and 1.
SEED_WORDS   == <<art, museum>>
InitialWords == Slice0(SEED_WORDS, 2)
ResetWords   == Slice0(SEED_WORDS, 1)

\* One preset of two words.
SEMANTIC_PRESETS == [worlds |-> <<bank, bat>>]

\* useState("hello my friend how are you?") of the tokenizer version: "hi".
InitialInput == <<104, 105>>

\* What the user types: " ", " cat ", "Art".
Typed == {<<32>>, <<32, 99, 97, 116, 32>>, <<65, 114, 116>>}

MaxWords == 3      \* longest word list (addWord appends below it)
MaxRuns  == 2      \* most async loops parked at an await at once
MaxEdits == 2      \* user actions in the specification that limits them

\* Vector lengths: 384 (MiniLM, tokenizer vectors, random placeholder),
\* 256 (toy placeholder), the toy slider 64..256 starting at 128.
ModelDim       == 4
ToyFallbackDim == 3
ToyDims        == {2, 3}
InitialDim     == 2

\* The words whose embedding may be the failing one.
FailingChoices == {{}, {art}}

\* The vector the black box answers for w: a fixed function of the text.
Extract(w) == [j \in 1..ModelDim |-> (w[1] + j * Len(w)) % 10]

\* { vec, tokens, tokenIds }
Entry(w) == [vec |-> Extract(w), tokens |-> <<w>>, tokenIds |-> w]

\* Two of the unit vectors the Math.random() loop can produce.
RandomVecs == {[j \in 1..ModelDim |-> IF j = r THEN 1 ELSE 0] : r \in 1..2}

EmptyStore == [w \in {} |-> <<>>]

\* Mutant: the update keeps nothing of prev.
PutWithoutSpread(prev, w, e) == [x \in {w} |-> e]

\* prev => ({ ...prev, [w]: e })
Put(prev, w, e) ==
    [x \in DOMAIN prev \cup {w} |-> IF x = w THEN e ELSE prev[x]]

\* realStore[w], realStore[w]?.tokens, realStore[w]?.vec are truthy exactly
\* for the keys of the store.
Cached(store, w) == w \in DOMAIN store

\* Every text the word list can hold.
Range(f) == {f[x] : x \in DOMAIN f}
AppTexts ==
    (Range(SEED_WORDS) \cup UNION {Range(SEMANTIC_PRESETS[p]) : p \in DOMAIN SEMANTIC_PRESETS}
        \cup {trim(t) : t \in Typed \cup {InitialInput}}) \ {<<>>}

\* embedWordToy over the texts and dimensions of the app, computed once.
ToyVec == [w \in AppTexts, d \in ToyDims \cup {ToyFallbackDim} |->
              embedWordToy(w, d)]

\* The vectors one word can get in a pass of the vectors memo.
VectorFor(ver, eng, d, store, w) ==
    IF ver = "toy"
    THEN IF eng = "minilm"
         THEN IF Cached(store, w) THEN {store[w].vec}
              ELSE {ToyVec[w, ToyFallbackDim]}
         ELSE {ToyVec[w, d]}
    ELSE IF Cached(store, w) THEN {store[w].vec} ELSE RandomVecs

\* Mutant: the memo drops the words that are not cached.
SkipUncached(ws, store) == SelectSeq(ws, LAMBDA w : Cached(store, w))

\* The words the memo maps.
Mapped(ws, store) == ws

\* words.map(w => ...): the lists a pass of the memo can produce.
VectorPasses(ver, eng, d, store, ws) ==
    LET ms     == Mapped(ws, store)
        choice == [i \in 1..Len(ms) |-> VectorFor(ver, eng, d, store, ms[i])]
    IN  {vs \in [1..Len(ms) -> UNION {choice[i] : i \in 1..Len(ms)}] :
            \A i \in 1..Len(ms) : vs[i] \in choice[i]}

\* Mutant: the catch ends the loop.
ResumeAtEnd(ws, i) == Len(ws) + 1

\* catch (e) { ... }: the for loop goes on with the word after index i.
Resume(ws, i) == i + 1

\* First index from `from` on whose word the loop does not skip; 0 if none.
NextMissing(ws, keys, from) ==
    LET c == {j \in from..Len(ws) : ws[j] \notin keys}
    IN  IF c = {} THEN 0 ELSE CHOOSE j \in c : \A j2 \in c : j <= j2

\* The loop of the tokenizer version has no await: it runs to its end in
\* one go, over the realStore of its closure, queueing one update a word.
RECURSIVE WriteAll(_, _, _, _, _)
WriteAll(store, ws, keys, bad, i) ==
    IF i > Len(ws) THEN store
    ELSE IF ws[i] \in keys
         THEN WriteAll(store, ws, keys, bad, i + 1)
         ELSE IF ws[i] \in bad
         THEN WriteAll(store, ws, keys, bad, Resume(ws, i))
         ELSE WriteAll(Put(store, ws[i], Entry(ws[i])), ws, keys, bad, i + 1)

\* words.findIndex(x => x.toLowerCase() === w.toLowerCase()), 0-based.
FindIndexCI(ws, w) ==
    (CHOOSE i \in 1..Len(ws) :
        /\ toLowerCase(ws[i]) = toLowerCase(w)
        /\ \A j \in 1..(i - 1) : toLowerCase(ws[j]) # toLowerCase(w)) - 1

\* Mutant: the word list is not searched.
IncludesNever(ws, w) == FALSE

\* Mutant: the word list is searched for the exact text.
IncludesExact(ws, w) == \E i \in 1..Len(ws) : ws[i] = w

\* words.map(s => s.toLowerCase()).includes(w.toLowerCase())
IncludesCI(ws, w) ==
    \E i \in 1..Len(ws) : toLowerCase(ws[i]) = toLowerCase(w)

notApp == <<k, M, result, kmVars, normVars, projVars, dotVars, toyVars,
           debVars, tailVars, ran>>

\* A user action is allowed while the budget lasts; -1 is no budget.
CanEdit == editsLeft # 0
Spend   == IF editsLeft > 0 THEN editsLeft - 1 ELSE editsLeft

\* The render that follows a change of words, realStore, engine or dim.
Render == vectors' \in VectorPasses(version, engine', dim', realStore', words')

\* onChange={e => setNewWord(e.target.value)}
Type(t) ==
    /\ CanEdit
    /\ t # newWord
    /\ newWord' = t
    /\ editsLeft' = Spend
    /\ UNCHANGED <<version, engine, dim, words, selected, realStore, ready,
                   failing, runs, effectPending, vectors, notApp>>

addWord ==
    LET w == trim(newWord)
    IN  /\ CanEdit
        /\ editsLeft' = Spend
        /\ UNCHANGED <<version, engine, dim, realStore, ready, failing, runs,
                       notApp>>
        /\ IF w = <<>>
           THEN UNCHANGED <<words, newWord, selected, effectPending, vectors>>
           ELSE IF IncludesCI(words, w)
           THEN /\ newWord' = <<>>
                /\ selected' = <<FindIndexCI(words, w)>>
                /\ UNCHANGED <<words, effectPending, vectors>>
           ELSE /\ Len(words) < MaxWords
                /\ words' = Append(words, w)
                /\ selected' = <<Len(words)>>
                /\ newWord' = <<>>
                /\ effectPending' = TRUE
                /\ Render

\* setWords(preset.words) with the array words already is changes nothing.
loadPreset(presetKey) ==
    LET preset == SEMANTIC_PRESETS[presetKey]
    IN  /\ CanEdit
        /\ version = "tokenizer"
        /\ editsLeft' = Spend
        /\ selected' = <<>>
        /\ UNCHANGED <<version, engine, dim, newWord, realStore, ready,
                       failing, runs, notApp>>
        /\ IF words = preset
           THEN UNCHANGED <<words, effectPending, vectors>>
           ELSE /\ words' = preset
                /\ effectPending' = TRUE
                /\ Render

clearAllWords ==
    /\ CanEdit
    /\ version = "tokenizer"
    /\ editsLeft' = Spend
    /\ words' = <<>>
    /\ selected' = <<>>
    /\ effectPending' = TRUE
    /\ UNCHANGED <<version, engine, dim, newWord, realStore, ready, failing,
                   runs, notApp>>
    /\ Render

resetGallery ==
    /\ CanEdit
    /\ version # "tokenizer"
    /\ editsLeft' = Spend
    /\ words' = ResetWords
    /\ selected' = <<>>
    /\ effectPending' = TRUE
    /\ UNCHANGED <<version, engine, dim, newWord, realStore, ready, failing,
                   runs, notApp>>
    /\ Render

\* The Toy / Real buttons of the toy version.
SetEngine(e) ==
    /\ CanEdit
    /\ version = "toy"
    /\ e # engine
    /\ editsLeft' = Spend
    /\ engine' = e
    /\ effectPending' = TRUE
    /\ UNCHANGED <<version, dim, words, newWord, selected, realStore, ready,
                   failing, runs, notApp>>
    /\ Render

\* The dimension slider of the toy version.
SetDim(d) ==
    /\ CanEdit
    /\ version = "toy"
    /\ d # dim
    /\ editsLeft' = Spend
    /\ dim' = d
    /\ UNCHANGED <<version, engine, words, newWord, selected, realStore,
                   ready, failing, runs, effectPending, notApp>>
    /\ Render

\* The loader sets extractor and tokenizer (fallbackTokenizer in the
\* tokenizer version); the toy version loads only for engine "minilm".
ModelLoaded ==
    /\ ~ready
    /\ version = "toy" => engine = "minilm"
    /\ ready' = TRUE
    /\ effectPending' = TRUE
    /\ UNCHANGED <<version, engine, dim, words, newWord, selected, realStore,
                   failing, runs, editsLeft, vectors, notApp>>

\* The catch of the loader of the toy version: setEngine("toy").
ModelLoadFailed ==
    /\ ~ready
    /\ version = "toy"
    /\ engine = "minilm"
    /\ engine' = "toy"
    /\ effectPending' = TRUE
    /\ UNCHANGED <<version, dim, words, newWord, selected, realStore, ready,
                   failing, runs, editsLeft, notApp>>
    /\ Render

\* The embedding effect: the cleanup of the previous run sets its
\* cancelled flag, then the effect body runs over the state of the render.
EmbeddingEffect ==
    LET old   == {[r EXCEPT !.cancelled = TRUE] : r \in runs}
        keys  == DOMAIN realStore
        first == NextMissing(words, keys, 1)
    IN  /\ effectPending
        /\ Cardinality(runs) < MaxRuns
        /\ UNCHANGED <<version, engine, dim, words, newWord, selected, ready,
                       failing, editsLeft, notApp>>
        /\ IF ~ready \/ (version = "toy" /\ engine # "minilm")
           THEN /\ runs' = old
                /\ effectPending' = FALSE
                /\ UNCHANGED <<realStore, vectors>>
           ELSE IF version = "tokenizer"
           THEN /\ runs' = old
                /\ realStore' = WriteAll(realStore, words, keys, failing, 1)
                /\ effectPending' = (realStore' # realStore)
                /\ IF realStore' # realStore
                   THEN Render
                   ELSE UNCHANGED vectors
           ELSE /\ runs' = old \cup
                      (IF first = 0 THEN {}
                       ELSE {[ws |-> words, keys |-> keys, i |-> first,
                              cancelled |-> FALSE]})
                /\ effectPending' = FALSE
                /\ UNCHANGED <<realStore, vectors>>

\* The awaited extractor / tokenizer calls of run r settle.  A cancelled
\* run returns at its next test of the flag; otherwise a throw is caught
\* and the loop goes on, and an answer is written with setRealStore; the
\* loop then runs on to its next await or to its end.
AwaitDone(r) ==
    LET w      == r.ws[r.i]
        park(j) == IF j = 0 THEN {} ELSE {[r EXCEPT !.i = j]}
        parked  == park(NextMissing(r.ws, r.keys, r.i + 1))
        caught  == park(NextMissing(r.ws, r.keys, Resume(r.ws, r.i)))
    IN  /\ r \in runs
        /\ UNCHANGED <<version, engine, dim, words, newWord, selected, ready,
                       failing, editsLeft, notApp>>
        /\ IF r.cancelled
           THEN /\ runs' = runs \ {r}
                /\ UNCHANGED <<realStore, effectPending, vectors>>
           ELSE IF w \in failing
           THEN /\ runs' = (runs \ {r}) \cup caught
                /\ UNCHANGED <<realStore, effectPending, vectors>>
           ELSE /\ runs' = (runs \ {r}) \cup parked
                /\ realStore' = Put(realStore, w, Entry(w))
                /\ effectPending' = TRUE
                /\ Render

---------------------------------------------------------------------------
(* Specification SpecEmbedding: the App from its first render, the user    *)
(* and the embedding effect interleaved freely.                            *)

InitApp ==
    /\ version \in Versions
    /\ engine = "minilm"
    /\ dim = InitialDim
    /\ words = InitialWords
    /\ newWord = (IF version = "tokenizer" THEN InitialInput ELSE <<>>)
    /\ selected = <<>>
    /\ realStore = EmptyStore
    /\ ready = FALSE
    /\ failing \in FailingChoices
    /\ runs = {}
    /\ effectPending = TRUE
    /\ vectors \in VectorPasses(version, engine, dim, realStore, words)
    /\ k = 0 /\ M = <<>> /\ result = <<>>
    /\ ran = {}
    /\ IdleKM /\ IdleNorm /\ IdleProj /\ IdleDot /\ IdleToy /\ IdleDeb
    /\ IdleTail

InitEmbedding == InitApp /\ editsLeft = -1

NextEmbedding ==
    \/ \E t \in Typed : Type(t)
    \/ addWord
    \/ \E presetKey \in DOMAIN SEMANTIC_PRESETS : loadPreset(presetKey)
    \/ clearAllWords
    \/ resetGallery
    \/ \E e \in {"minilm", "toy"} : SetEngine(e)
    \/ \E d \in ToyDims : SetDim(d)
    \/ ModelLoaded
    \/ ModelLoadFailed
    \/ EmbeddingEffect
    \/ \E r \in runs : AwaitDone(r)

SpecEmbedding == InitEmbedding /\ [][NextEmbedding]_vars

\* C14: the embedding cache is append-only: in every step, whatever the
\* interleaving of word-list changes, effect runs, cancellations and
\* completions, every key of realStore stays a key and keeps its entry.
C14_AppendOnly ==
    [][\A w \in DOMAIN realStore :
          /\ w \in DOMAIN realStore'
          /\ realStore'[w] = realStore[w]]_vars

\* The cache still holds the entries of words that left the list, here
\* after clearAllWords in the tokenizer version.
C14_Witness ==
    /\ version = "tokenizer" /\ words = <<>>
    /\ Cached(realStore, art) /\ Cached(realStore, bank)

\* The same after resetGallery in the MiniLM version, while a cancelled
\* loop of the effect is still parked at its await.
C14_WitnessCancelled ==
    /\ version = "minilm" /\ words = ResetWords
    /\ Cached(realStore, museum) /\ \E r \in runs : r.cancelled

\* What stands in for a word that is not cached: a random unit vector, or
\* in the toy version the toy embedding of the word.
IsPlaceholder(v, w) ==
    \/ v \in RandomVecs
    \/ \E d \in ToyDims \cup {ToyFallbackDim} : v = ToyVec[w, d]

\* C15 as stated: in every pass the vector list has one vector per word, in
\* word order: the cached vector when the word is in the cache, otherwise a
\* placeholder.
C15_AsStated ==
    /\ Len(vectors) = Len(words)
    /\ \A i \in 1..Len(words) :
          IF Cached(realStore, words[i])
          THEN vectors[i] = realStore[words[i]].vec
          ELSE IsPlaceholder(vectors[i], words[i])

\* C15, amended: the same, except that with the Toy engine of the toy
\* version the cache is not read: every word, cached or not, gets its toy
\* embedding of the current dimension.
C15_OneVectorPerWord ==
    /\ Len(vectors) = Len(words)
    /\ \A i \in 1..Len(words) :
          IF version = "toy" /\ engine = "toy"
          THEN vectors[i] = ToyVec[words[i], dim]
          ELSE IF Cached(realStore, words[i])
               THEN vectors[i] = realStore[words[i]].vec
               ELSE IsPlaceholder(vectors[i], words[i])

\* A pass over a list with a cached word and a word that is not ready.
C15_Witness ==
    /\ version = "minilm"
    /\ words = <<art, museum>>
    /\ Cached(realStore, art) /\ ~Cached(realStore, museum)
    /\ vectors[1] = Extract(art) /\ vectors[2] \in RandomVecs

\* The Toy engine with a cached word in the list.
C15_ToyEngineWitness ==
    /\ version = "toy" /\ engine = "toy"
    /\ words = <<art, museum>> /\ Cached(realStore, art)
    /\ vectors[1] = ToyVec[art, dim] /\ vectors[1] # realStore[art].vec

\* C16: the placeholder of a word that is not cached is a fixed vector, so
\* a pass is a function of the word list and the cache: a pass over an
\* unchanged word list and cache gives the vector list of the pass before
\* it, and a word that keeps its place and stays uncached from one pass to
\* the next keeps its vector.
C16_FixedPlaceholder ==
    [][/\ (words' = words /\ realStore' = realStore
             /\ engine' = engine /\ dim' = dim) => vectors' = vectors
       /\ \A i \in 1..Len(words) :
             (/\ i <= Len(words') /\ words'[i] = words[i]
              /\ ~Cached(realStore, words[i]) /\ ~Cached(realStore', words[i])
              /\ engine' = engine /\ dim' = dim)
             => vectors'[i] = vectors[i]]_vars

\* What the code does in the MiniLM and tokenizer versions: every pass
\* draws a fresh Math.random() vector for every word that is not cached.
C16_CodeDrawsPerPass ==
    (version # "toy") =>
        \A i \in 1..Len(words) :
            ~Cached(realStore, words[i]) => vectors[i] \in RandomVecs

\* One pass of the tokenizer version with two different placeholders.
C16_TwoDrawsWitness ==
    /\ version = "tokenizer"
    /\ words = <<art, museum>> /\ realStore = EmptyStore
    /\ vectors[1] \in RandomVecs /\ vectors[2] \in RandomVecs
    /\ vectors[1] # vectors[2]

---------------------------------------------------------------------------
(* Specification SpecEmbeddingFair: the MiniLM and tokenizer versions with *)
(* a user who acts at most MaxEdits times, so that the word list stops     *)
(* changing.  React runs an effect whose dependencies changed, and the     *)
(* awaited calls of a parked loop settle: weak fairness on both.           *)

InitEmbeddingFair ==
    /\ InitApp
    /\ version \in {"minilm", "tokenizer"}
    /\ editsLeft = MaxEdits

NextEmbeddingFair ==
    \/ \E t \in Typed : Type(t)
    \/ addWord
    \/ \E presetKey \in DOMAIN SEMANTIC_PRESETS : loadPreset(presetKey)
    \/ clearAllWords
    \/ resetGallery
    \/ ModelLoaded
    \/ EmbeddingEffect
    \/ \E r \in runs : AwaitDone(r)

SpecEmbeddingFair ==
    /\ InitEmbeddingFair
    /\ [][NextEmbeddingFair]_vars
    /\ WF_vars(EmbeddingEffect)
    /\ WF_vars(\E r \in runs : AwaitDone(r))

\* Every word of the list whose embedding does not throw is cached.
AllSucceedingCached ==
    \A i \in 1..Len(words) :
        words[i] \notin failing => Cached(realStore, words[i])

\* Nothing is left that writes to the cache: no loop is parked and the
\* effect is not due.
Quiet == runs = {} /\ ~effectPending

\* C17: a word whose embedding throws does not block the others: once the
\* word list has stopped changing, and with the model or tokenizer loaded,
\* eventually every word of the list whose embedding succeeds is cached
\* and from then on nothing writes to the cache.
C17_OthersGetCached ==
    <>[](Quiet /\ (ready => AllSucceedingCached))

\* The first word throws and the word after it is cached, in the version
\* whose loop awaits.
C17_Witness ==
    /\ version = "minilm" /\ ready /\ failing = {art}
    /\ words = <<art, museum>>
    /\ ~Cached(realStore, art) /\ Cached(realStore, museum)
    /\ Quiet

\* The same in the tokenizer version, whose loop has no await.
C17_WitnessTokenizer ==
    /\ version = "tokenizer" /\ ready /\ failing = {art}
    /\ words = <<art, museum>>
    /\ ~Cached(realStore, art) /\ Cached(realStore, museum)
    /\ Quiet

---------------------------------------------------------------------------
(* The debounced effects: the preview effect of the App (dependencies      *)
(* newWord, extractor, tokenizer, fallbackTokenizer) and the tokenization  *)
(* effect of the Tokenizer tab (dependencies text, tokenizer).  Each run   *)
(* of the effect is the cleanup of the run before it, clearTimeout, and    *)
(* then its body, in the render that follows the change of a dependency.   *)
(* Time advances in steps of TickMs; a timer that is due may fire late.    *)

Delay == 300            \* setTimeout(..., 300)
Ticks == 3              \* clock steps the delay is divided into
TickMs == Delay \div Ticks
MaxDepChanges == 2      \* dependency changes between two changes of text

\* The texts typed: "", " ", "a", "b".
Texts == {<<>>, <<32>>, <<97>>, <<98>>}

\* useState("hello my friend how are you?") in both components: "a".
InitialText == <<97>>

\* Mutant: the cleanup leaves the timer of the run before it pending.
ClearTimeoutNoop(ts) == ts

\* return () => clearTimeout(timer)
ClearTimeout(ts) == {}

\* The body of the effect: the tab clears at once, without a timer, when
\* it has no tokenizer or the text is blank; otherwise a timer is set.
SetTimeout(comp, t, tok) ==
    IF comp = "tab" /\ (~tok \/ trim(t) = <<>>)
    THEN {}
    ELSE {[text |-> t, left |-> Delay]}

Effect(comp, t, tok, ts) == ClearTimeout(ts) \cup SetTimeout(comp, t, tok)

notDeb == <<vecVars, kmVars, normVars, projVars, dotVars, appVars, toyVars,
            tailVars, ran>>

InitDebounce ==
    /\ component \in {"preview", "tab"}
    /\ text = InitialText
    /\ tokenizer \in BOOLEAN
    /\ timers = SetTimeout(component, text, tokenizer)
    /\ since = 0
    /\ runCount = 0
    /\ depChanges = 0
    /\ lastRun = [text |-> <<>>, quiet |-> 0]
    /\ ran = {}
    /\ IdleVec /\ IdleKM /\ IdleNorm /\ IdleProj /\ IdleDot /\ IdleApp
    /\ IdleToy /\ IdleTail

\* onChange: setNewWord / setText, then the effect of the next render.
ChangeText(t) ==
    /\ t # text
    /\ text' = t
    /\ timers' = Effect(component, t, tokenizer, timers)
    /\ since' = 0
    /\ runCount' = 0
    /\ depChanges' = 0
    /\ UNCHANGED <<component, tokenizer, lastRun, notDeb>>

\* Another dependency changes (a model or tokenizer is set or reset); in
\* the tab the only one is the tokenizer prop.
ChangeDependency(tok) ==
    /\ depChanges < MaxDepChanges
    /\ component = "tab" => tok # tokenizer
    /\ tokenizer' = tok
    /\ timers' = Effect(component, text, tok, timers)
    /\ depChanges' = depChanges + 1
    /\ UNCHANGED <<component, text, since, runCount, lastRun, notDeb>>

\* TickMs pass.
Tick ==
    /\ since' = Min(since + TickMs, Delay + TickMs)
    /\ timers' = {[tm EXCEPT !.left = Max(tm.left - TickMs, 0)] : tm \in timers}
    /\ since' # since \/ timers' # timers
    /\ UNCHANGED <<component, text, tokenizer, runCount, depChanges, lastRun,
                   notDeb>>

\* A timer that is due calls back: getPreviewEmbedding(newWord) or the
\* tokenization, with the text of the render that set it.
TimerFires(tm) ==
    /\ tm \in timers
    /\ tm.left = 0
    /\ timers' = timers \ {tm}
    /\ runCount' = runCount + 1
    /\ lastRun' = [text |-> tm.text, quiet |-> since]
    /\ UNCHANGED <<component, text, tokenizer, since, depChanges, notDeb>>

NextDebounce ==
    \/ \E t \in Texts : ChangeText(t)
    \/ \E tok \in BOOLEAN : ChangeDependency(tok)
    \/ Tick
    \/ \E tm \in timers : TimerFires(tm)

SpecDebounce == InitDebounce /\ [][NextDebounce]_vars

\* C18 as stated: a run happens only for a text unchanged for the whole
\* delay, a change of the text cancels the pending run, and at most one
\* run happens per quiescence window, with the latest text.
C18_AsStated ==
    /\ runCount > 0 => (lastRun.quiet >= Delay /\ lastRun.text = text)
    /\ \A tm \in timers : tm.text = text
    /\ runCount <= 1

\* C18, amended: the same, with one more run for each change of another
\* dependency of the effect while the text is at rest: such a change sets
\* the timer again for the same text.
C18_Debounced ==
    /\ runCount > 0 => (lastRun.quiet >= Delay /\ lastRun.text = text)
    /\ \A tm \in timers : tm.text = text
    /\ Cardinality(timers) <= 1
    /\ runCount <= 1 + depChanges

\* The text was changed while a timer was pending, and the one run of the
\* new window used the new text after the whole delay.
C18_Witness ==
    /\ text = <<98>> /\ runCount = 1 /\ depChanges = 0
    /\ lastRun = [text |-> <<98>>, quiet |-> Delay]
    /\ timers = {}

\* Two runs in one window: the tokenizer arrived after the first run.
C18_SecondRunWitness ==
    /\ component = "preview" /\ text = InitialText
    /\ runCount = 2 /\ depChanges = 1 /\ tokenizer

---------------------------------------------------------------------------
(* Claims on embedWordToy (SpecToy) *)

\* dot of the two normalized results is 1: (a . b)^2 = |a|^2 |b|^2 with
\* a . b > 0.
UnitDotIsOne(a, b) ==
    /\ dot(a, b) > 0
    /\ dot(a, b) * dot(a, b) = NormSq(a) * NormSq(b)

\* C19: embedWordToy(w, dim) has exactly dim entries and depends only on
\* the lower-cased word: it equals embedWordToy(lowercase(w), dim) entry by
\* entry, so the dot product of the two normalized results is 1.
C19_LowercaseOnly ==
    ran = {"embedWordToy"} =>
        /\ Len(toyOut) = toyDim
        /\ Len(toyOutLower) = toyDim
        /\ \A j \in 1..toyDim : toyOut[j] = toyOutLower[j]
        /\ UnitDotIsOne(toyOut, toyOutLower)

\* "Ab" at dimension 64 gives the vector of "ab": four trigrams counted.
C19_Witness ==
    /\ ran = {"embedWordToy"}
    /\ toyWord = <<65, 98>> /\ toyDim = 64
    /\ toyOut = embedWordToy(<<97, 98>>, 64)
    /\ NormSq(toyOut) >= 4

---------------------------------------------------------------------------
(* Claims on the centroid initialization of kmeans (SpecKMeans) *)

\* kmeans has initialized its centroids and has not yet iterated.
KMeansInitialized == kpc = "loop" /\ it = 0

\* C20 as stated: for every point set and every k >= 1, also with fewer
\* points than k, kmeans starts from k centroids, the copies of the first
\* k input points in input order.
C20_AsStated ==
    KMeansInitialized =>
        /\ Len(centers) = kc
        /\ \A c \in 1..Len(centers) :
              c <= Len(points) /\ centers[c] = CenterAt(points[c])

\* C20, amended: kmeans starts from min(k, M) centroids, the copies of the
\* first min(k, M) input points in input order.
C20_FirstPointsAreCentroids ==
    KMeansInitialized =>
        /\ Len(centers) = Min(kc, Len(points))
        /\ \A c \in 1..Len(centers) : centers[c] = CenterAt(points[c])

\* Two centroids out of three points that differ from first to last.
C20_Witness ==
    /\ KMeansInitialized
    /\ Len(points) = 3 /\ kc = 2 /\ points[1] # points[3]
    /\ centers = <<CenterAt(points[1]), CenterAt(points[2])>>

\* Fewer points than clusters: one centroid for k = 3.
C20_FewerPointsWitness ==
    /\ KMeansInitialized
    /\ Len(points) = 1 /\ kc = 3 /\ Len(centers) = 1


---------------------------------------------------------------------------
(* Claims on one iteration of kmeans (SpecKMeans) *)

\* A step of the outer loop of kmeans.
IterationStep == kpc = "loop" /\ it' = it + 1

\* The squared distance of point p to centroid a is at most / less than
\* the one to centroid b (exact rationals, cross-multiplied).
NoFarther(p, a, b) ==
    Dist2(p, a).n * Dist2(p, b).d <= Dist2(p, b).n * Dist2(p, a).d
Nearer(p, a, b) ==
    Dist2(p, a).n * Dist2(p, b).d < Dist2(p, b).n * Dist2(p, a).d

\* C21: in every iteration each point is assigned to a centroid at minimal
\* squared Euclidean distance, and among equally near centroids to the one
\* with the lowest index.
C21_NearestLowestIndex ==
    [][IterationStep =>
        \A i \in 1..Len(points) :
            LET l == labels'[i] + 1 IN
            /\ l \in 1..Len(centers)
            /\ \A c \in 1..Len(centers) :
                  /\ NoFarther(points[i], centers[l], centers[c])
                  /\ c < l => Nearer(points[i], centers[l], centers[c])]_vars

\* After the first iteration a point that was equally near to two initial
\* centroids, both nearest, carries the lower index.
C21_Witness ==
    /\ kpc = "loop" /\ it = 1
    /\ \E i \in 1..Len(points) :
         \E a, b \in 1..Len(InitCenters(points, kc)) :
            LET cs == InitCenters(points, kc) IN
            /\ a < b /\ labels[i] = a - 1
            /\ NoFarther(points[i], cs[a], cs[b])
            /\ NoFarther(points[i], cs[b], cs[a])

\* A point changes its centroid in the second iteration.
C21_ReassignedWitness ==
    /\ kpc = "loop" /\ it = 2
    /\ labels # Assign(points, InitCenters(points, kc))

\* C22: in every iteration a centroid without assigned points keeps its
\* position, and a centroid with assigned points moves to their mean.
C22_EmptyKeepsOthersMean ==
    [][IterationStep =>
        /\ Len(centers') = Len(centers)
        /\ \A c \in 1..Len(centers) :
             LET cnt == Count(labels', c - 1) IN
             IF cnt = 0
             THEN centers'[c] = centers[c]
             ELSE /\ centers'[c].d > 0
                  /\ centers'[c].x * cnt
                       = SumAxis(points, labels', c - 1, 1, Len(points)) * centers'[c].d
                  /\ centers'[c].y * cnt
                       = SumAxis(points, labels', c - 1, 2, Len(points)) * centers'[c].d]_vars

\* After the first iteration the second centroid has no point, stays where
\* it was seeded, and the first centroid has
\* moved to the mean of several points.
C22_Witness ==
    /\ kpc = "loop" /\ it = 1 /\ Len(centers) >= 2
    /\ Count(labels, 1) = 0
    /\ centers[2] = CenterAt(points[2])
    /\ Count(labels, 0) >= 2
    /\ centers[1] # CenterAt(points[1])


---------------------------------------------------------------------------
(* The App component (part_001): the model-loading effect, the retry      *)
(* button and the debounced input preview with its asynchronous extractor *)
(* call.  MiniLM version lines 62-108 and 202-227, tokenizer version      *)
(* lines 1023-1043 and 1192-1258.  The 300 ms of the preview timer are    *)
(* abstracted: a pending timer fires at any later moment.                 *)

\* What the user types into the input box: "", " ", "a", "ab".
PreviewTexts == {<<>>, <<32>>, <<97>>, <<97, 98>>}

MaxPreviewEdits == 3   \* changes of the input box in one behaviour

\* Everything the loader and the preview leave alone.
mdlFrame == <<vecVars, kmVars, normVars, projVars, dotVars, toyVars, debVars,
              sceneVars, version, engine, dim, words, selected, realStore, ready,
              failing, runs, effectPending, ran>>

\* The first render: no model, nothing previewed, every effect still to run.
InitPreview ==
    /\ version \in {"minilm", "tokenizer"}
    /\ newWord = (IF version = "tokenizer" THEN InitialInput ELSE <<>>)
    /\ editsLeft = MaxPreviewEdits
    /\ engine = "minilm" /\ dim = 0 /\ words = <<>> /\ selected = <<>>
    /\ realStore = [w \in {} |-> <<>>] /\ ready = FALSE
    /\ failing = {} /\ runs = {} /\ effectPending = FALSE
    /\ extractor = "null" /\ modelTokenizer = "null"
    /\ fallbackTokenizer = "null" /\ modelError = "null"
    /\ loadingModel = FALSE /\ load = "none"
    /\ loaderDue = TRUE /\ previewDue = TRUE
    /\ previewTimer = {} /\ inflight = {}
    /\ previewText = <<>> /\ previewEmbedding = <<>>
    /\ attempts = 0 /\ retries = 0 /\ calls = 0 /\ thrown = {}
    /\ ran = {}
    /\ IdleVec /\ IdleKM /\ IdleNorm /\ IdleProj /\ IdleDot /\ IdleToy
    /\ IdleDeb /\ IdleScene

\* useEffect(() => { if (extractor) return; (async () => { try {
\* setLoadingModel(true); setModelError(null); await import(...) ...
\* }, [extractor]) in the MiniLM version; useEffect(() => {
\* loadFallbackTokenizer() }, []) in the tokenizer version.
LoaderEffect ==
    /\ loaderDue
    /\ loaderDue' = FALSE
    /\ IF version = "minilm"
       THEN IF extractor # "null"
            THEN UNCHANGED <<loadingModel, modelError, load, attempts>>
            ELSE /\ loadingModel' = TRUE
                 /\ modelError' = "null"
                 /\ load' = "import"
                 /\ attempts' = attempts + 1
       ELSE /\ load' = "import"
            /\ attempts' = attempts + 1
            /\ UNCHANGED <<loadingModel, modelError>>
    /\ UNCHANGED <<extractor, modelTokenizer, fallbackTokenizer, previewDue,
                   previewTimer, inflight, previewText, previewEmbedding,
                   retries, calls, thrown, newWord, editsLeft, mdlFrame>>

\* An await of the loading function resolves.  MiniLM: import, pipeline,
\* AutoTokenizer.from_pretrained, then setExtractor(pipe); setTokenizer(tok)
\* and, in finally, setLoadingModel(false).  Tokenizer version: import, then
\* setFallbackTokenizer(...).  The new extractor / fallbackTokenizer is a
\* changed dependency of the effects that list it.
LoadStep ==
    /\ load # "none"
    /\ IF version = "minilm"
       THEN IF load = "tokenizer"
            THEN /\ extractor' = "pipe"
                 /\ modelTokenizer' = "tok"
                 /\ loadingModel' = FALSE
                 /\ load' = "none"
                 /\ loaderDue' = TRUE
                 /\ previewDue' = TRUE
                 /\ UNCHANGED fallbackTokenizer
            ELSE /\ load' = (IF load = "import" THEN "pipeline" ELSE "tokenizer")
                 /\ UNCHANGED <<extractor, modelTokenizer, loadingModel,
                                loaderDue, previewDue, fallbackTokenizer>>
       ELSE /\ fallbackTokenizer' = "gpt"
            /\ load' = "none"
            /\ previewDue' = TRUE
            /\ UNCHANGED <<extractor, modelTokenizer, loadingModel, loaderDue>>
    /\ UNCHANGED <<modelError, previewTimer, inflight, previewText,
                   previewEmbedding, attempts, retries, calls, thrown,
                   newWord, editsLeft, mdlFrame>>

\* An await of the loading function rejects.  MiniLM: catch sets modelError,
\* finally sets loadingModel to false.  Tokenizer version: catch only logs.
LoadFails ==
    /\ load # "none"
    /\ load' = "none"
    /\ IF version = "minilm"
       THEN modelError' = "failed" /\ loadingModel' = FALSE
       ELSE UNCHANGED <<modelError, loadingModel>>
    /\ UNCHANGED <<extractor, modelTokenizer, fallbackTokenizer, loaderDue,
                   previewDue, previewTimer, inflight, previewText,
                   previewEmbedding, attempts, retries, calls, thrown,
                   newWord, editsLeft, mdlFrame>>

\* The dependencies of the two effects as the next render sees them.
LoaderDeps(ext) == <<ext>>
PreviewDeps(ver, w, ext, tok, fb) ==
    IF ver = "minilm" THEN <<w, ext>> ELSE <<w, ext, tok, fb>>

\* Whether the model-loading effect reruns after retryModelLoading: React
\* reruns an effect only when one of its dependencies changed.
RetryTriggers(ext) == LoaderDeps("null") # LoaderDeps(ext)

\* The Retry button is rendered when !loadingModel && modelError.
\* setExtractor(null); setTokenizer(null); setModelError(null); and, in the
\* tokenizer version, setLoadingModel(false).  The tokenizer version has no
\* model-loading effect.
retryModelLoading ==
    /\ ~loadingModel /\ modelError # "null"
    /\ extractor' = "null"
    /\ modelTokenizer' = "null"
    /\ modelError' = "null"
    /\ loadingModel' = FALSE
    /\ retries' = retries + 1
    /\ loaderDue' = (loaderDue \/ (version = "minilm" /\ RetryTriggers(extractor)))
    /\ previewDue' =
          (previewDue \/ PreviewDeps(version, newWord, "null", "null", fallbackTokenizer)
                          # PreviewDeps(version, newWord, extractor, modelTokenizer,
                                        fallbackTokenizer))
    /\ UNCHANGED <<fallbackTokenizer, load, previewTimer, inflight,
                   previewText, previewEmbedding, attempts, calls, thrown,
                   newWord, editsLeft, mdlFrame>>

\* onChange={e => setNewWord(e.target.value)}, and setNewWord("") of addWord.
setNewWord(t) ==
    /\ CanEdit
    /\ t # newWord
    /\ newWord' = t
    /\ editsLeft' = Spend
    /\ previewDue' = TRUE
    /\ UNCHANGED <<extractor, modelTokenizer, fallbackTokenizer, modelError,
                   loadingModel, load, loaderDue, previewTimer, inflight,
                   previewText, previewEmbedding, attempts, retries, calls,
                   thrown, mdlFrame>>

\* The preview effect: the cleanup of the previous run, clearTimeout(timer),
\* then setTimeout(() => getPreviewEmbedding(newWord), 300).  The callback
\* closes over newWord, extractor and fallbackTokenizer of this render.
PreviewEffect ==
    /\ previewDue
    /\ previewDue' = FALSE
    /\ previewTimer' = {[text |-> newWord, ext |-> extractor,
                         fb |-> fallbackTokenizer]}
    /\ UNCHANGED <<extractor, modelTokenizer, fallbackTokenizer, modelError,
                   loadingModel, load, loaderDue, inflight, previewText,
                   previewEmbedding, attempts, retries, calls, thrown,
                   newWord, editsLeft, mdlFrame>>

\* The timer fires: getPreviewEmbedding(text) up to its first await.
\* MiniLM (209-227): without extractor or with blank text the preview is
\* cleared; otherwise the call parks at await extractor(...).  Tokenizer
\* version (1200-1258): blank text clears the preview, a missing
\* fallbackTokenizer returns, otherwise the text is encoded at once and the
\* preview is set, or encode throws and catch only logs.
PreviewTimerFires(tm, throws) ==
    /\ tm \in previewTimer
    /\ previewTimer' = previewTimer \ {tm}
    /\ IF trim(tm.text) = <<>> \/ (version = "minilm" /\ tm.ext = "null")
       THEN /\ ~throws
            /\ previewText' = <<>>
            /\ previewEmbedding' = <<>>
            /\ UNCHANGED <<inflight, calls, thrown>>
       ELSE IF version = "minilm"
       THEN /\ ~throws
            /\ inflight' = inflight \cup {[id |-> calls + 1, text |-> tm.text]}
            /\ calls' = calls + 1
            /\ UNCHANGED <<thrown, previewText, previewEmbedding>>
       ELSE IF tm.fb = "null"
       THEN /\ ~throws
            /\ UNCHANGED <<inflight, calls, thrown, previewText,
                           previewEmbedding>>
       ELSE /\ calls' = calls + 1
            /\ UNCHANGED inflight
            /\ IF throws
               THEN /\ thrown' = thrown \cup {calls + 1}
                    /\ UNCHANGED <<previewText, previewEmbedding>>
               ELSE /\ previewText' = tm.text
                    /\ previewEmbedding' = <<tm.text>>
                    /\ UNCHANGED thrown
    /\ UNCHANGED <<extractor, modelTokenizer, fallbackTokenizer, modelError,
                   loadingModel, load, loaderDue, previewDue, attempts,
                   retries, newWord, editsLeft, mdlFrame>>

\* await extractor(text, ...) resolves: setPreviewEmbedding(vec);
\* setPreviewText(text), for the text the call was made with.
PreviewResolves(c) ==
    /\ c \in inflight
    /\ inflight' = inflight \ {c}
    /\ previewText' = c.text
    /\ previewEmbedding' = <<c.text>>
    /\ UNCHANGED <<extractor, modelTokenizer, fallbackTokenizer, modelError,
                   loadingModel, load, loaderDue, previewDue, previewTimer,
                   attempts, retries, calls, thrown, newWord, editsLeft,
                   mdlFrame>>

\* await extractor(text, ...) rejects: catch clears the preview.
PreviewRejects(c) ==
    /\ c \in inflight
    /\ inflight' = inflight \ {c}
    /\ thrown' = thrown \cup {c.id}
    /\ previewText' = <<>>
    /\ previewEmbedding' = <<>>
    /\ UNCHANGED <<extractor, modelTokenizer, fallbackTokenizer, modelError,
                   loadingModel, load, loaderDue, previewDue, previewTimer,
                   attempts, retries, calls, newWord, editsLeft, mdlFrame>>

NextPreview ==
    \/ LoaderEffect
    \/ LoadStep
    \/ LoadFails
    \/ retryModelLoading
    \/ \E t \in PreviewTexts : setNewWord(t)
    \/ PreviewEffect
    \/ \E tm \in previewTimer, throws \in BOOLEAN : PreviewTimerFires(tm, throws)
    \/ \E c \in inflight : PreviewResolves(c)
    \/ \E c \in inflight : PreviewRejects(c)

SpecPreview == InitPreview /\ [][NextPreview]_vars

\* Scheduled work is done in the end: React runs a due effect, a promise
\* settles, a pending timer fires.  The user's actions are not forced.
SpecPreviewFair ==
    /\ SpecPreview
    /\ WF_vars(LoaderEffect)
    /\ WF_vars(LoadStep \/ LoadFails)
    /\ WF_vars(PreviewEffect)
    /\ WF_vars(\E tm \in previewTimer, throws \in BOOLEAN :
                  PreviewTimerFires(tm, throws))
    /\ WF_vars(\E c \in inflight : PreviewResolves(c) \/ PreviewRejects(c))

---------------------------------------------------------------------------
(* Claims on the model loader (SpecPreviewFair) *)

\* C23: after a failed model load, retryModelLoading triggers the
\* model-loading effect again, so that a new load attempt starts in the end.
C23_RetryStartsLoad == (retries >= 1) ~> (attempts >= 2)

\* What the code does: whatever is pressed, the loading function is started
\* once, on mount.
C23_CodeLoadsOnce == attempts <= 1

\* Retry was pressed after the failed load, the error message is gone, and
\* nothing is loading or due to load.
C23_CodeIdleAfterRetryWitness ==
    /\ version = "minilm" /\ retries = 1 /\ attempts = 1
    /\ extractor = "null" /\ modelError = "null"
    /\ ~loadingModel /\ ~loaderDue /\ load = "none"


---------------------------------------------------------------------------
(* Claims on addWord (SpecEmbedding) *)

\* The positions of the words equal to w when case is ignored.
SameIgnoringCase(ws, w) ==
    {i \in 1..Len(ws) : toLowerCase(ws[i]) = toLowerCase(w)}

\* C24: addWord with blank input leaves words and selected alone; with an
\* input that equals a word when case is ignored it leaves words alone,
\* selects that word and clears the input; otherwise it appends the trimmed
\* input as the last word, selects it and clears the input.
C24_AddWordCases ==
    [][addWord =>
        LET w    == trim(newWord)
            same == SameIgnoringCase(words, w)
        IN  IF w = <<>>
            THEN words' = words /\ selected' = selected
            ELSE IF same # {}
            THEN /\ words' = words
                 /\ \E i \in same : selected' = <<i - 1>>
                 /\ newWord' = <<>>
            ELSE /\ words' = Append(words, w)
                 /\ selected' = <<Len(words') - 1>>
                 /\ newWord' = <<>>]_vars

\* "Art" was entered while "art" is the first word: the list is as before,
\* the first word is selected and the input is empty.
C24_Witness ==
    /\ words = InitialWords /\ selected = <<0>> /\ newWord = <<>>
    /\ toLowerCase(<<65, 114, 116>>) = words[1] /\ <<65, 114, 116>> # words[1]

\* " cat " was entered: "cat" is the last word and is selected.
C24_AppendWitness ==
    /\ words = Append(InitialWords, <<99, 97, 116>>)
    /\ selected = <<Len(words) - 1>> /\ newWord = <<>>


---------------------------------------------------------------------------
(* Visualization3D (components/Visualization3D.tsx) inside the App of the  *)
(* tokenizer version: the scene effect with its zero-size branch, the      *)
(* mouse and touch listeners of the scene, and the App handlers that set   *)
(* selected.  What the scene shows (reduceTo3D and the meshes) is the      *)
(* subject of SpecProjection; here a scene is the number of its points     *)
(* and whether it was built for a mobile width.                            *)

MobileBreakpoint == 768   \* const isMobile = width < 768
TapWindow        == 300   \* timeDiff < 300
TouchTick        == 150   \* ms the clock advances in one step
MaxTicks         == 2     \* clock steps in one behaviour
MaxSceneEdits    == 2     \* user and environment actions in one behaviour

\* Date.now() when the page is opened, scaled: every clock of this century
\* reads more than TapWindow.
Epoch == TapWindow * 2

\* Container sizes <<width, height>>: not laid out, without height, a
\* phone, a desktop window.
Sizes == {<<0, 0>>, <<1000, 0>>, <<400, 300>>, <<1000, 300>>}

\* The texts of the quick search box: "", "ART", "bat".
Queries == {<<>>, <<65, 82, 84>>, bat}

\* Everything the scene and the selection handlers leave alone.
sceneFrame == <<k, M, result, kmVars, normVars, dotVars, toyVars, debVars,
                mdlVars, method, coordsRaw, backendCalls, pcaAnalysis,
                version, engine, dim, realStore, ready, failing, runs,
                effectPending, ran>>

\* The dependencies of the two effects as the current render holds them.
SceneDeps  == <<[vectors |-> vectors, words |-> words, dark |-> dark]>>
SearchDeps == <<[query |-> query, words |-> words]>>

\* An effect runs after a render in which its dependencies differ from
\* those of its last run (and after the first render).
SceneDue  == sceneProps # SceneDeps
SearchDue == searchProps # SearchDeps

\* The App after its first render, the 3D view open, no effect run yet.
InitScene ==
    /\ version = "tokenizer"
    /\ engine = "minilm" /\ dim = InitialDim
    /\ words = InitialWords
    /\ newWord = InitialInput
    /\ selected = <<>>
    /\ realStore = EmptyStore /\ ready = FALSE
    /\ failing = {} /\ runs = {} /\ effectPending = TRUE
    /\ vectors \in VectorPasses(version, engine, dim, realStore, words)
    /\ editsLeft = MaxSceneEdits
    /\ dark = TRUE /\ query = <<>> /\ searchProps = <<>>
    /\ \E size \in Sizes : clientWidth = size[1] /\ clientHeight = size[2]
    /\ sceneProps = <<>> /\ scenePc = "none" /\ scene = <<>>
    /\ retryTimers = 0
    /\ now = Epoch /\ lastTouchTime = 0 /\ touch = <<>>
    /\ selectCalls = 0
    /\ painted = words
    /\ k = 0 /\ M = <<>> /\ result = <<>>
    /\ ran = {}
    /\ IdleKM /\ IdleNorm /\ IdleProj /\ IdleDot /\ IdleToy /\ IdleDeb
    /\ IdleMdl

\* The scene built by initializeScene for n words in a container w wide.
BuiltScene(n, w) == <<[points |-> n, mobile |-> w < MobileBreakpoint]>>

\* The scene effect, lines 514-739: the cleanup of the previous run removes
\* the listeners of the old scene; then nothing for an empty vector list;
\* with a container without width or height a timer is set and
\* initializeScene returns; otherwise the scene is built inside try, and
\* catch shows the error.  addTouchInteraction starts its lastTouchTime
\* at 0.
SceneEffect(throws) ==
    /\ SceneDue
    /\ sceneProps' = SceneDeps
    /\ IF Len(vectors) = 0
       THEN /\ ~throws
            /\ scenePc' = "empty" /\ scene' = <<>>
            /\ UNCHANGED <<retryTimers, isLoading, error, lastTouchTime>>
       ELSE IF clientWidth = 0 \/ clientHeight = 0
       THEN /\ ~throws
            /\ scenePc' = "waiting" /\ scene' = <<>>
            /\ retryTimers' = retryTimers + 1
            /\ UNCHANGED <<isLoading, error, lastTouchTime>>
       ELSE IF throws
       THEN /\ scenePc' = "failed" /\ scene' = <<>>
            /\ error' = "scene failed" /\ isLoading' = FALSE
            /\ UNCHANGED <<retryTimers, lastTouchTime>>
       ELSE /\ scenePc' = "ready"
            /\ scene' = BuiltScene(Len(words), clientWidth)
            /\ error' = Null /\ isLoading' = FALSE
            /\ lastTouchTime' = 0
            /\ UNCHANGED retryTimers
    /\ UNCHANGED <<vectors, words, newWord, selected, editsLeft, dark, query,
                   searchProps, clientWidth, clientHeight, now, touch,
                   selectCalls, painted,
                   sceneFrame>>

\* The callback of the zero-size branch, lines 548-552: the container is
\* mounted, so setIsLoading(true).  initializeScene is not called, and no
\* dependency of the scene effect changes.
RetryTimerFires ==
    /\ retryTimers > 0
    /\ retryTimers' = retryTimers - 1
    /\ isLoading' = TRUE
    /\ UNCHANGED <<vectors, words, newWord, selected, editsLeft, error, dark,
                   query, searchProps, clientWidth, clientHeight, sceneProps,
                   scenePc, scene, now, lastTouchTime, touch, selectCalls,
                   painted,
                   sceneFrame>>

\* The layout gives the container another size.  The component listens to
\* no resize event.
Resize(w, h) ==
    /\ CanEdit /\ editsLeft' = Spend
    /\ <<w, h>> # <<clientWidth, clientHeight>>
    /\ clientWidth' = w /\ clientHeight' = h
    /\ UNCHANGED <<vectors, words, newWord, selected, isLoading, error, dark,
                   query, searchProps, sceneProps, scenePc, scene,
                   retryTimers, now, lastTouchTime, touch, selectCalls,
                   painted,
                   sceneFrame>>

\* onClick={() => setDark(d => !d)}
ToggleDark ==
    /\ CanEdit /\ editsLeft' = Spend
    /\ dark' = ~dark
    /\ UNCHANGED <<vectors, words, newWord, selected, isLoading, error, query,
                   searchProps, clientWidth, clientHeight, sceneProps,
                   scenePc, scene, retryTimers, now, lastTouchTime, touch,
                   selectCalls, painted,
                   sceneFrame>>

\* The click listener of the scene, lines 185-201: the ray hits point i of
\* the scene the listener belongs to, onSelect(i), which is setSelected.
PointClick(i) ==
    /\ CanEdit /\ editsLeft' = Spend
    /\ scene # <<>>
    /\ i \in 0..(scene[1].points - 1)
    /\ selected' = <<i>>
    /\ selectCalls' = selectCalls + 1
    /\ UNCHANGED <<vectors, words, newWord, isLoading, error, dark, query,
                   searchProps, clientWidth, clientHeight, sceneProps,
                   scenePc, scene, retryTimers, now, lastTouchTime, touch,
                   painted,
                   sceneFrame>>

\* A finger goes down on the canvas; over is the index of the point under
\* it when it is lifted (-1 for none), changed the length of changedTouches
\* of the touchend.  onTouchStart, lines 216-221, only calls
\* preventDefault.
TouchStart(over, changed) ==
    /\ CanEdit /\ editsLeft' = Spend
    /\ scene # <<>> /\ scene[1].mobile
    /\ touch = <<>>
    /\ over \in (-1)..(scene[1].points - 1)
    /\ touch' = <<[at |-> now, over |-> over, changed |-> changed]>>
    /\ UNCHANGED <<vectors, words, newWord, selected, isLoading, error, dark,
                   query, searchProps, clientWidth, clientHeight, sceneProps,
                   scenePc, scene, retryTimers, now, lastTouchTime,
                   selectCalls, painted,
                   sceneFrame>>

\* const timeDiff = now - lastTouchTime, lastTouchTime being the time of
\* the previous touchend of this scene, or 0.
TimeDiff(t, last) == t - last

\* onTouchEnd, lines 223-248.  Without the listeners (the scene was cleaned
\* up while the finger was down) nothing happens.
TouchEnd ==
    /\ touch # <<>>
    /\ touch' = <<>>
    /\ IF scene # <<>> /\ scene[1].mobile
       THEN /\ lastTouchTime' = now
            /\ IF /\ TimeDiff(now, lastTouchTime) < TapWindow
                  /\ touch[1].changed = 1
                  /\ touch[1].over \in 0..(scene[1].points - 1)
               THEN /\ selected' = <<touch[1].over>>
                    /\ selectCalls' = selectCalls + 1
               ELSE UNCHANGED <<selected, selectCalls>>
       ELSE UNCHANGED <<lastTouchTime, selected, selectCalls>>
    /\ UNCHANGED <<vectors, words, newWord, editsLeft, isLoading, error, dark,
                   query, searchProps, clientWidth, clientHeight, sceneProps,
                   scenePc, scene, retryTimers, now, painted,
                   sceneFrame>>

\* Time passes.
ClockTick ==
    /\ now < Epoch + MaxTicks * TouchTick
    /\ now' = now + TouchTick
    /\ UNCHANGED <<vectors, words, newWord, selected, editsLeft, isLoading,
                   error, dark, query, searchProps, clientWidth, clientHeight,
                   sceneProps, scenePc, scene, retryTimers, lastTouchTime,
                   touch, selectCalls, painted,
                   sceneFrame>>

\* The placard of word i: onClick={() => { setSelected(i);
\* setNewWord(words[i]); }}
PlacardClick(i) ==
    /\ CanEdit /\ editsLeft' = Spend
    /\ i \in 0..(Len(words) - 1)
    /\ selected' = <<i>>
    /\ newWord' = words[i + 1]
    /\ UNCHANGED <<vectors, words, isLoading, error, sceneVars, sceneFrame>>

\* <AnimatePresence> keeps the placard of a word that left the list in the
\* gallery while its exit animation runs (exit={{ opacity: 0 }}), with the
\* props of its last render: its onClick still holds the old i and words.
LeavingPlacards ==
    {i \in 0..(Len(painted) - 1) : painted[i + 1] \notin Range(words)}

\* A click on a leaving placard.
LeavingPlacardClick(i) ==
    /\ CanEdit /\ editsLeft' = Spend
    /\ i \in LeavingPlacards
    /\ selected' = <<i>>
    /\ newWord' = painted[i + 1]
    /\ UNCHANGED <<vectors, words, isLoading, error, sceneVars, sceneFrame>>

\* The exit animations end: the leaving placards are removed.
ExitComplete ==
    /\ painted # words
    /\ painted' = words
    /\ UNCHANGED <<vectors, words, newWord, selected, editsLeft, isLoading,
                   error, dark, query, searchProps, clientWidth, clientHeight,
                   sceneProps, scenePc, scene, retryTimers, now,
                   lastTouchTime, touch, selectCalls, sceneFrame>>

\* onChange={e => setQuery(e.target.value)}
SetQuery(q) ==
    /\ CanEdit /\ editsLeft' = Spend
    /\ q # query
    /\ query' = q
    /\ UNCHANGED <<vectors, words, newWord, selected, isLoading, error, dark,
                   searchProps, clientWidth, clientHeight, sceneProps,
                   scenePc, scene, retryTimers, now, lastTouchTime, touch,
                   selectCalls, painted,
                   sceneFrame>>

\* The quick search effect, lines 1298-1303: if (!query) return; const i =
\* words.findIndex(w => w.toLowerCase() === query.toLowerCase());
\* if (i >= 0) setSelected(i).
QuickSearch ==
    /\ SearchDue
    /\ searchProps' = SearchDeps
    /\ IF query # <<>> /\ IncludesCI(words, query)
       THEN selected' = <<FindIndexCI(words, query)>>
       ELSE UNCHANGED selected
    /\ UNCHANGED <<vectors, words, newWord, editsLeft, isLoading, error, dark,
                   query, clientWidth, clientHeight, sceneProps, scenePc,
                   scene, retryTimers, now, lastTouchTime, touch, selectCalls,
                   painted,
                   sceneFrame>>

\* The handlers of the word list leave the 3D view's own state alone.
NextScene ==
    \/ \E throws \in BOOLEAN : SceneEffect(throws)
    \/ RetryTimerFires
    \/ \E size \in Sizes : Resize(size[1], size[2])
    \/ ToggleDark
    \/ \E i \in 0..MaxWords : PointClick(i)
    \/ \E over \in (-1)..MaxWords, changed \in 1..2 : TouchStart(over, changed)
    \/ TouchEnd
    \/ ClockTick
    \/ \E i \in 0..MaxWords : PlacardClick(i)
    \/ \E i \in 0..MaxWords : LeavingPlacardClick(i)
    \/ ExitComplete
    \/ \E q \in Queries : SetQuery(q)
    \/ QuickSearch
    \/ addWord
    \/ \E presetKey \in DOMAIN SEMANTIC_PRESETS : loadPreset(presetKey)
    \/ clearAllWords

SpecScene == InitScene /\ [][NextScene]_vars

\* React runs a due effect and a pending timer fires; the user and the
\* layout are not forced to do anything.
SpecSceneFair ==
    /\ SpecScene
    /\ WF_vars(\E throws \in BOOLEAN : SceneEffect(throws))
    /\ WF_vars(RetryTimerFires)
    /\ WF_vars(QuickSearch)
    /\ WF_vars(TouchEnd)
    /\ WF_vars(ExitComplete)

---------------------------------------------------------------------------
(* Claims on the zero-size branch of the scene effect (SpecSceneFair) *)

\* The container has a width and a height.
Sized == clientWidth # 0 /\ clientHeight # 0

\* C25: when the scene effect found the container without width or height,
\* initialization is retried: once the container has a size the scene is
\* initialized in the end, with no change of vectors, words or dark.
C25_ZeroSizeRetried ==
    (scenePc = "waiting" /\ Sized) ~> (scenePc # "waiting" \/ ~Sized)

\* What the code does: a scene effect that found no size is followed by a
\* scene only when the effect runs again, for other vectors, words or dark.
C25_CodeWaitsForProps ==
    [][(scenePc = "waiting" /\ scenePc' # "waiting")
          => sceneProps' # sceneProps]_vars

\* The container has got its size, the timer of the zero-size branch has
\* fired, no effect is due, and the view still shows its loading overlay
\* over no scene.
C25_CodeStuckWitness ==
    /\ scenePc = "waiting" /\ Sized /\ retryTimers = 0
    /\ ~SceneDue /\ isLoading /\ scene = <<>>

---------------------------------------------------------------------------
(* Claims on the touch listeners of the scene (SpecScene) *)

\* A touchend reaches the listeners of a scene built for a mobile width.
TouchEndStep ==
    /\ touch # <<>> /\ touch' = <<>>
    /\ scene # <<>> /\ scene[1].mobile

\* The touch in progress is lifted with one changed touch over a point.
OverPoint ==
    /\ touch[1].changed = 1
    /\ touch[1].over \in 0..(scene[1].points - 1)

\* C26: on a mobile-width container a touch over a point that ends less
\* than 300 ms after it began, with one changed touch, calls onSelect with
\* the index of the point, the first tap on a new scene included; a touch
\* that lasts longer calls nothing.
C26_TapSelects ==
    [][(TouchEndStep /\ OverPoint) =>
          IF now - touch[1].at < TapWindow
          THEN selectCalls' = selectCalls + 1 /\ selected' = <<touch[1].over>>
          ELSE selectCalls' = selectCalls]_vars

\* What the code does: onSelect is called when the touch ends less than
\* 300 ms after the previous touchend on this scene, that is for the second
\* of two quick taps, and never for the first touch of a scene.
C26_CodeTimesFromLastTouchEnd ==
    [][TouchEndStep =>
          (selectCalls' = selectCalls + 1)
             = (OverPoint /\ now - lastTouchTime < TapWindow)]_vars

\* The first touch on a new scene is a short tap over a point, about to
\* end; the code will measure the whole clock value.
C26_CodeFirstTapWitness ==
    /\ touch # <<>> /\ scene # <<>> /\ scene[1].mobile
    /\ OverPoint /\ now - touch[1].at < TapWindow
    /\ lastTouchTime = 0 /\ now - lastTouchTime >= TapWindow

\* The part of C26 that holds: a touch that lasts 300 ms or longer calls
\* nothing.
C26_CodeLongPressIgnored ==
    [][(TouchEndStep /\ now - touch[1].at >= TapWindow)
          => selectCalls' = selectCalls]_vars

\* A second tap over a point is about to end within 300 ms of the end of
\* the first; the code will select the point.
C26_CodeSecondTapWitness ==
    /\ touch # <<>> /\ scene # <<>> /\ scene[1].mobile
    /\ OverPoint /\ lastTouchTime # 0
    /\ now - lastTouchTime < TapWindow

---------------------------------------------------------------------------
(* Claims on the word list (SpecEmbedding) *)

\* The live-drip timer, lines 1011-1021: the pool of seed words not in the
\* list, and the update setWords(w => (w.includes(pick) ? w : [...w, pick])).
\* live is useState(false) and is never set in any version, so the timer is
\* never started; the update is checked for every list the App reaches.
DripPool(ws) == {SEED_WORDS[i] : i \in 1..Len(SEED_WORDS)} \ Range(ws)
DripUpdate(w, pick) == IF pick \in Range(w) THEN w ELSE Append(w, pick)

\* No string is at two positions of ws.
NoDuplicates(ws) == \A i, j \in 1..Len(ws) : ws[i] = ws[j] => i = j

\* C27: under every interleaving of addWord, loadPreset, clearAllWords and
\* resetGallery the word list holds no string twice, and a tick of the
\* live-drip timer would leave it so.
C27_WordsUnique ==
    /\ NoDuplicates(words)
    /\ \A pick \in DripPool(words) \cup Range(words) :
          NoDuplicates(DripUpdate(words, pick))

\* A preset was loaded and a word added to it.
C27_Witness ==
    /\ words = Append(SEMANTIC_PRESETS.worlds, <<99, 97, 116>>)
    /\ NoDuplicates(words)

\* The gallery was reset and a word added, with a seed word left to drip.
C27_ResetWitness ==
    /\ words = Append(ResetWords, <<99, 97, 116>>)
    /\ DripPool(words) # {}

---------------------------------------------------------------------------
(* Claims on the selection (SpecScene) *)

\* C28: selected is null or an index of the current word list, after every
\* sequence of addWord, placard clicks, quick searches, clicks and taps on
\* 3D points, loadPreset and clearAllWords, a click that comes from a scene
\* built for an earlier, longer word list included.
C28_SelectedInRange ==
    selected = <<>> \/ selected[1] \in 0..(Len(words) - 1)

\* What the code does: selected leaves the valid range only by a listener
\* of the scene or by the onClick of a leaving placard, which pass their
\* own index to setSelected unchecked; the handlers and effects of the App
\* never put it out of range.
C28_CodeOnlyStaleClicksMisselect ==
    [][(C28_SelectedInRange /\ ~C28_SelectedInRange')
          => \/ selectCalls' = selectCalls + 1
             \/ selected'[1] \in LeavingPlacards]_vars

\* The word list was replaced by a shorter one, the scene effect has not
\* yet cleaned up the scene of the longer list, and a click on that scene
\* has selected a point beyond the new list.
C28_CodeStaleClickWitness ==
    /\ SceneDue /\ scene # <<>>
    /\ scene[1].points > Len(words)
    /\ selectCalls = 1
    /\ selected # <<>> /\ selected[1] >= Len(words)

\* The word list was cleared and the placard of a word that left was
\* clicked before its exit animation ended.
C28_CodeLeavingPlacardWitness ==
    /\ words = <<>> /\ painted # <<>> /\ selectCalls = 0
    /\ selected # <<>> /\ newWord = painted[selected[1] + 1]

---------------------------------------------------------------------------
(* Claims on the lengths of the vectors of a pass (SpecEmbedding) *)

\* C29: in every pass all vectors of the list have the same length, cached
\* or placeholder, so that dot never meets two lengths.
C29_UniformLength ==
    \A i, j \in 1..Len(vectors) : Len(vectors[i]) = Len(vectors[j])

\* What the code does: the MiniLM and tokenizer versions give every word
\* 384 numbers, and so does the toy version with the toy engine for its
\* dimension; the toy version with the MiniLM engine mixes the cached
\* vectors of 384 numbers with toy placeholders of 256.
C29_CodeUniformOutsideToyFallback ==
    (version # "toy" \/ engine = "toy") => C29_UniformLength

\* One pass of the toy version holds a cached MiniLM vector before a toy
\* placeholder, and dot of the two reads past the end of the shorter.
C29_CodeMixedLengthsWitness ==
    /\ version = "toy" /\ engine = "minilm" /\ Len(vectors) >= 2
    /\ Len(vectors[1]) = ModelDim /\ Len(vectors[2]) = ToyFallbackDim
    /\ dot(vectors[1], vectors[2]) = NaN

---------------------------------------------------------------------------
(* Claims on the order of the preview computations (SpecPreview) *)

\* Nothing of the preview is scheduled or in flight.
PreviewQuiet == ~previewDue /\ previewTimer = {} /\ inflight = {}

\* The model the preview of this version embeds with is there.
PreviewModelReady ==
    IF version = "minilm" THEN extractor # "null"
    ELSE fallbackTokenizer # "null"

\* C30: a preview computed for an earlier input never overwrites the one of
\* a later input: once nothing of the preview is pending, the preview is
\* cleared for a blank input and otherwise shows the latest input (the
\* model being there and the latest call not having failed), in whatever
\* order the calls resolve.
C30_LatestInputWins ==
    PreviewQuiet =>
        IF trim(newWord) = <<>> THEN previewText = <<>>
        ELSE (PreviewModelReady /\ calls \notin thrown)
                 => previewText = newWord

\* What the code does: the tokenizer version encodes inside the timer
\* callback, so its preview is always the one of the latest input.
C30_CodeSynchronousPreviewIsLatest ==
    version = "tokenizer" => C30_LatestInputWins

\* What the code does: in the MiniLM version the call that resolves sets the
\* preview to its own text, without looking at the current input.
C30_CodeResolvedCallWins ==
    [][\A c \in inflight :
           (inflight' = inflight \ {c} /\ thrown' = thrown)
               => previewText' = c.text]_vars

\* The call of the earlier input resolved after the call of the later one
\* and the preview shows the earlier input.
C30_CodeOverwrittenWitness ==
    /\ version = "minilm" /\ PreviewQuiet /\ PreviewModelReady
    /\ thrown = {} /\ calls = 2
    /\ trim(newWord) # <<>>
    /\ previewText # <<>> /\ previewText # newWord

\* The input was blanked while a call was in flight: the timer cleared the
\* preview and the call then resolved.
C30_CodeBlankOverwrittenWitness ==
    /\ version = "minilm" /\ PreviewQuiet /\ thrown = {}
    /\ trim(newWord) = <<>> /\ previewText # <<>>

===========================================================================
